---- MODULE Spec2Model ----
(***************************************************************************)
(* Model of the PKG Revival hybrid build core:                             *)
(*   - node-support  (capability model, target validator, build strategy)  *)
(*   - HybridBuilder (strategy decision engine and orchestrator)           *)
(*   - SEABuilder    (native single-executable assembly pipeline)          *)
(*   - pkg-fetch-extended (resolver of node binaries for newer versions)   *)
(*                                                                         *)
(* JavaScript strings that the code parses (version tags) are sequences of *)
(* one-character strings; a message is its template text with the value    *)
(* spliced in.  A JS number that may be NaN is a set holding at most one   *)
(* integer ({} is NaN).                                                    *)
(***************************************************************************)
EXTENDS Integers, Sequences, FiniteSets, TLC

VARIABLES
    env,        \* the host: what `node --help` prints
    options,    \* the HybridBuildOptions of the call under way
    dTarget,    \* decideBuildStrategy called directly: its target argument
    dlog,       \* decideBuildStrategy called directly: the decisions returned
    hpc,        \* HybridBuilder.build: position in the method
    decisions,  \* HybridBuilder.build: const decisions
    idx,        \* HybridBuilder.build: index of the decision the for-loop is at
    results,    \* HybridBuilder.build: const results
    errors,     \* HybridBuilder.build: const errors
    dispatched, \* targets handed to buildSingleTarget so far, in order
    hret,       \* HybridBuilder.build: the value returned (<<>> before return)
    spc,        \* SEABuilder.build: position in the method
    seaOptions, \* SEABuilder.build: its options argument
    fsys,       \* the file system: the temp directory and the output path
    seaConfig,  \* SEABuilder.build: const seaConfig
    trace,      \* SEABuilder.build: external tools and fs calls made, in order
    seaErrors,  \* SEABuilder.build: const errors
    seaWarnings,\* SEABuilder.build: const warnings
    seaRet,     \* SEABuilder.build: the result its return statement built
    calls,      \* number of SEABuilder.build calls started
    rival,      \* a second SEABuilder.build call overlapping the first one
    fArgs,      \* the resolver call under way: entry point and arguments
    cache,      \* the files present in the binary cache directory
    fpc,        \* the resolver call: position in enhancedFetch / fetch
    binaryInfo, \* ExtendedPkgFetch.fetch: const binaryInfo
    flog,       \* the resolver call: the functions entered so far, in order
    fret        \* the resolver call: the path returned or the error thrown

vars == <<env, options, dTarget, dlog, hpc, decisions, idx, results, errors,
          dispatched, hret, spc, seaOptions, fsys, seaConfig, trace,
          seaErrors, seaWarnings, seaRet, calls, rival, fArgs, cache, fpc,
          binaryInfo, flog, fret>>

hvars == <<hpc, decisions, idx, results, errors, dispatched, hret>>
svars == <<spc, seaOptions, fsys, seaConfig, trace, seaErrors, seaWarnings,
           seaRet, calls>>
dvars == <<dTarget, dlog>>
fvars == <<fArgs, cache, fpc, binaryInfo, flog, fret>>

(***************************************************************************)
(* Bounds                                                                  *)
(***************************************************************************)
MaxMajor == 25      \* version tags node0 .. node<MaxMajor> are enumerated
MaxDecides == 2     \* direct decideBuildStrategy calls per behaviour
MaxTargets == 2     \* targets per HybridBuilder.build call
MaxCalls == 2       \* SEABuilder.build calls per behaviour

(***************************************************************************)
(* JavaScript string and number helpers                                    *)
(***************************************************************************)
undefined == "undefined"

DigitChars == <<"0", "1", "2", "3", "4", "5", "6", "7", "8", "9">>

IsDigit(c) == \E i \in 1..10 : DigitChars[i] = c

DigitVal(c) == (CHOOSE i \in 1..10 : DigitChars[i] = c) - 1

\* String(n) for a natural number n
RECURSIVE Digits(_)
Digits(n) ==
    IF n < 10 THEN <<DigitChars[n + 1]>>
    ELSE Digits(n \div 10) \o <<DigitChars[(n % 10) + 1]>>

NodeChars == <<"n", "o", "d", "e">>

\* s.startsWith('node'), /^node/.test(s)
StartsWithNode(s) == Len(s) >= 4 /\ SubSeq(s, 1, 4) = NodeChars

\* s.replace('node', ''): the first occurrence is removed
ReplaceNode(s) ==
    LET occ == {i \in 1..Len(s) : i + 3 <= Len(s) /\ SubSeq(s, i, i + 3) = NodeChars}
    IN  IF occ = {} THEN s
        ELSE LET i == CHOOSE j \in occ : \A k \in occ : j <= k
             IN  SubSeq(s, 1, i - 1) \o SubSeq(s, i + 4, Len(s))

RECURSIVE DigitPrefixValue(_, _)
DigitPrefixValue(s, acc) ==
    IF s = <<>> \/ ~IsDigit(Head(s)) THEN acc
    ELSE DigitPrefixValue(Tail(s), acc * 10 + DigitVal(Head(s)))

\* parseInt(s, 10) on unsigned input: the longest digit prefix, NaN ({}) if none
ParseInt(s) ==
    IF s = <<>> \/ ~IsDigit(Head(s)) THEN {}
    ELSE {DigitPrefixValue(s, 0)}

\* An optional boolean is "true", "false" or undefined
OptBool == {"true", "false", undefined}

Truthy(b) == b = "true"

\* An optional array: absent, or a list
NoArray == [defined |-> FALSE, list |-> <<>>]

Array(list) == [defined |-> TRUE, list |-> list]

\* (options.assets?.length || 0)
AssetsLength(a) == IF a.defined THEN Len(a.list) ELSE 0

\* array.includes(x)
Includes(seq, x) == \E i \in 1..Len(seq) : seq[i] = x

NodeTag(n) == NodeChars \o Digits(n)

\* A message built from a template literal: its text and the value spliced in
Msg(text, arg) == [text |-> text, arg |-> arg]

(***************************************************************************)
(* node-support: capability model                                          *)
(***************************************************************************)
AbiEntry(abi, node) == [abi |-> <<"m">> \o Digits(abi), node |-> node]

\* A table in which node22 is listed under two ABIs and node23 under none
EXTENDED_ABI_MAPPING_node22Twice ==
    << AbiEntry(108, NodeTag(18)), AbiEntry(111, NodeTag(19)),
       AbiEntry(115, NodeTag(20)), AbiEntry(120, NodeTag(21)),
       AbiEntry(127, NodeTag(22)), AbiEntry(131, NodeTag(22)),
       AbiEntry(137, NodeTag(24)) >>

\* Object.entries(EXTENDED_ABI_MAPPING), in insertion order
EXTENDED_ABI_MAPPING ==
    << AbiEntry(14, <<"n", "o", "d", "e", "0", ".", "1", "2">>),
       AbiEntry(46, NodeTag(4)),   AbiEntry(47, NodeTag(5)),
       AbiEntry(48, NodeTag(6)),   AbiEntry(51, NodeTag(7)),
       AbiEntry(57, NodeTag(8)),   AbiEntry(59, NodeTag(9)),
       AbiEntry(64, NodeTag(10)),  AbiEntry(67, NodeTag(11)),
       AbiEntry(72, NodeTag(12)),  AbiEntry(79, NodeTag(13)),
       AbiEntry(83, NodeTag(14)),  AbiEntry(88, NodeTag(15)),
       AbiEntry(93, NodeTag(16)),  AbiEntry(102, NodeTag(17)),
       AbiEntry(108, NodeTag(18)), AbiEntry(111, NodeTag(19)),
       AbiEntry(115, NodeTag(20)), AbiEntry(120, NodeTag(21)),
       AbiEntry(127, NodeTag(22)), AbiEntry(131, NodeTag(23)),
       AbiEntry(137, NodeTag(24)) >>

SEA_SUPPORTED_VERSIONS ==
    <<NodeTag(19), NodeTag(20), NodeTag(21), NodeTag(22), NodeTag(23), NodeTag(24)>>

\* A stable list that starts below the supported list
SEA_STABLE_VERSIONS_from18 ==
    <<NodeTag(18), NodeTag(21), NodeTag(22), NodeTag(23), NodeTag(24)>>

SEA_STABLE_VERSIONS == <<NodeTag(21), NodeTag(22), NodeTag(23), NodeTag(24)>>

\* A supported range that starts above 8
InSupportedRange_above8(versionNumber) == \E n \in versionNumber : n > 8 /\ n <= 24

\* versionNumber >= 8 && versionNumber <= 24 (false for NaN)
InSupportedRange(versionNumber) == \E n \in versionNumber : n >= 8 /\ n <= 24

getNodeVersionInfo(nodeRange) ==
    LET version == IF StartsWithNode(nodeRange) THEN nodeRange
                   ELSE NodeChars \o nodeRange
        versionNumber == ParseInt(ReplaceNode(version))
        hits == {i \in 1..Len(EXTENDED_ABI_MAPPING) :
                    EXTENDED_ABI_MAPPING[i].node = version}
        abi == IF hits = {} THEN {0}
               ELSE LET i == CHOOSE j \in hits : \A k \in hits : j <= k
                    IN  ParseInt(Tail(EXTENDED_ABI_MAPPING[i].abi))
    IN  [ version |-> version,
          abi |-> abi,
          supportsSEA |-> Includes(SEA_SUPPORTED_VERSIONS, version),
          stableSEA |-> Includes(SEA_STABLE_VERSIONS, version),
          isSupported |-> InSupportedRange(versionNumber) ]

\* enhancedAbiToNodeRange(abi): the table's entry under the key abi if there is
\* one; otherwise what pkg-fetch's system.abiToNodeRange answers, or abi itself
\* when pkg-fetch has no such function (systemAnswer stands for either)
enhancedAbiToNodeRange(abi, systemAnswer) ==
    LET hits == {i \in 1..Len(EXTENDED_ABI_MAPPING) :
                    EXTENDED_ABI_MAPPING[i].abi = abi}
    IN  IF hits # {}
        THEN EXTENDED_ABI_MAPPING[CHOOSE i \in hits : TRUE].node
        ELSE systemAnswer

supportsSEA(nodeRange) == getNodeVersionInfo(nodeRange).supportsSEA

hasStableSEA(nodeRange) == getNodeVersionInfo(nodeRange).stableSEA

\* Capabilities whose feature flags start with the first SEA version
getSEACapabilities_from19(nodeRange) ==
    LET info == getNodeVersionInfo(nodeRange)
        versionNumber == ParseInt(ReplaceNode(info.version))
        atLeast19 == \E n \in versionNumber : n >= 19
    IN  IF ~info.supportsSEA
        THEN [ hasNativeSEA |-> FALSE, supportsAssets |-> FALSE,
               supportsSnapshot |-> FALSE, supportsCodeCache |-> FALSE,
               requiresPostject |-> FALSE ]
        ELSE [ hasNativeSEA |-> TRUE, supportsAssets |-> atLeast19,
               supportsSnapshot |-> atLeast19, supportsCodeCache |-> atLeast19,
               requiresPostject |-> TRUE ]

getSEACapabilities(nodeRange) ==
    LET info == getNodeVersionInfo(nodeRange)
        versionNumber == ParseInt(ReplaceNode(info.version))
        atLeast20 == \E n \in versionNumber : n >= 20
    IN  IF ~info.supportsSEA
        THEN [ hasNativeSEA |-> FALSE, supportsAssets |-> FALSE,
               supportsSnapshot |-> FALSE, supportsCodeCache |-> FALSE,
               requiresPostject |-> FALSE ]
        ELSE [ hasNativeSEA |-> TRUE, supportsAssets |-> atLeast20,
               supportsSnapshot |-> atLeast20, supportsCodeCache |-> atLeast20,
               requiresPostject |-> TRUE ]

\* getBuildStrategy without its cross-compilation rule
getBuildStrategy_noCross(nodeRange, opts) ==
    LET info == getNodeVersionInfo(nodeRange)
        crossCompile == Truthy(opts.crossCompile)
        hasComplexRequires == Truthy(opts.hasComplexRequires)
    IN  IF ~info.isSupported THEN "traditional"
        ELSE IF hasComplexRequires THEN "traditional"
        ELSE IF info.stableSEA /\ ~hasComplexRequires THEN "sea"
        ELSE IF info.supportsSEA THEN "hybrid"
        ELSE "traditional"

\* getBuildStrategy without its complex-requires rule
getBuildStrategy_noComplex(nodeRange, opts) ==
    LET info == getNodeVersionInfo(nodeRange)
        crossCompile == Truthy(opts.crossCompile)
        hasComplexRequires == Truthy(opts.hasComplexRequires)
    IN  IF ~info.isSupported THEN "traditional"
        ELSE IF crossCompile THEN "traditional"
        ELSE IF info.stableSEA /\ ~hasComplexRequires THEN "sea"
        ELSE IF info.supportsSEA THEN "hybrid"
        ELSE "traditional"

\* opts: crossCompile, hasComplexRequires, hasAssets; an undefined one defaults
\* to false
getBuildStrategy(nodeRange, opts) ==
    LET info == getNodeVersionInfo(nodeRange)
        crossCompile == Truthy(opts.crossCompile)
        hasComplexRequires == Truthy(opts.hasComplexRequires)
    IN  IF ~info.isSupported THEN "traditional"
        ELSE IF crossCompile THEN "traditional"
        ELSE IF hasComplexRequires THEN "traditional"
        ELSE IF info.stableSEA /\ ~hasComplexRequires THEN "sea"
        ELSE IF info.supportsSEA THEN "hybrid"
        ELSE "traditional"

(***************************************************************************)
(* node-support: target validator                                          *)
(***************************************************************************)
supportedPlatforms == <<"linux", "macos", "win", "alpine", "linuxstatic">>

supportedArchs == <<"x64", "arm64", "x86">>

\* validateTarget testing the platform before the version
validateTarget_platformFirst(target) ==
    LET info == getNodeVersionInfo(target.nodeRange)
    IN  IF ~Includes(supportedPlatforms, target.platform)
        THEN [ valid |-> FALSE,
               reason |-> Msg("Platform ${target.platform} is not supported. Supported platforms: linux, macos, win, alpine, linuxstatic",
                              <<target.platform>>) ]
        ELSE IF ~info.isSupported
        THEN [ valid |-> FALSE,
               reason |-> Msg("Node.js version ${target.nodeRange} is not supported. Supported versions: 8-24",
                              target.nodeRange) ]
        ELSE IF ~Includes(supportedArchs, target.arch)
        THEN [ valid |-> FALSE,
               reason |-> Msg("Architecture ${target.arch} is not supported. Supported architectures: x64, arm64, x86",
                              <<target.arch>>) ]
        ELSE [ valid |-> TRUE, reason |-> undefined ]

validateTarget(target) ==
    LET info == getNodeVersionInfo(target.nodeRange)
    IN  IF ~info.isSupported
        THEN [ valid |-> FALSE,
               reason |-> Msg("Node.js version ${target.nodeRange} is not supported. Supported versions: 8-24",
                              target.nodeRange) ]
        ELSE IF ~Includes(supportedPlatforms, target.platform)
        THEN [ valid |-> FALSE,
               reason |-> Msg("Platform ${target.platform} is not supported. Supported platforms: linux, macos, win, alpine, linuxstatic",
                              <<target.platform>>) ]
        ELSE IF ~Includes(supportedArchs, target.arch)
        THEN [ valid |-> FALSE,
               reason |-> Msg("Architecture ${target.arch} is not supported. Supported architectures: x64, arm64, x86",
                              <<target.arch>>) ]
        ELSE [ valid |-> TRUE, reason |-> undefined ]

\* enhancedIsValidNodeRange: 'latest', or a tag that starts with node and whose
\* number, read by parseInt after the first 'node' is removed, is in 8..24
enhancedIsValidNodeRange(nodeRange) ==
    IF nodeRange = <<"l", "a", "t", "e", "s", "t">> THEN TRUE
    ELSE IF ~StartsWithNode(nodeRange) THEN FALSE
    ELSE \E n \in ParseInt(ReplaceNode(nodeRange)) : n >= 8 /\ n <= 24

(***************************************************************************)
(* SEABuilder.canUseSEA and HybridBuilder.decideBuildStrategy              *)
(***************************************************************************)
\* host: what runCommand('node', ['--help']) answers on this machine
canUseSEA(nodeVersion, host) ==
    IF ~hasStableSEA(nodeVersion) THEN FALSE
    ELSE host.helpListsSeaConfig

\* decideBuildStrategy honouring a forced mode before it validates the target
decideBuildStrategy_forceFirst(target, opts, host) ==
    LET validation == validateTarget(target)
        can == canUseSEA(target.nodeRange, host)
        strategy == getBuildStrategy(target.nodeRange,
                       [ crossCompile |-> opts.crossCompile,
                         hasComplexRequires |-> opts.hasComplexRequires,
                         hasAssets |-> IF AssetsLength(opts.assets) > 0
                                       THEN "true" ELSE "false" ])
        nodeInfo == getNodeVersionInfo(target.nodeRange)
        buildMode ==
            CASE strategy = "sea" -> "sea"
              [] strategy = "traditional" -> "traditional"
              [] strategy = "hybrid" ->
                    IF nodeInfo.stableSEA THEN "sea" ELSE "traditional"
        reason ==
            CASE strategy = "sea" ->
                    Msg("Optimal for simple projects with stable SEA support", <<>>)
              [] strategy = "traditional" ->
                    Msg("Required for complex projects or cross-compilation", <<>>)
              [] strategy = "hybrid" ->
                    IF nodeInfo.stableSEA
                    THEN Msg("Using SEA for better performance (hybrid mode)", <<>>)
                    ELSE Msg("Using traditional PKG for reliability (hybrid mode)", <<>>)
    IN  IF opts.forceBuildMode # undefined /\ opts.forceBuildMode # "auto"
        THEN [ target |-> target, buildMode |-> opts.forceBuildMode,
               reason |-> Msg("User forced ${options.forceBuildMode} mode",
                              <<opts.forceBuildMode>>),
               canUseSEA |-> can,
               shouldUseSEA |-> (opts.forceBuildMode = "sea" /\ can) ]
        ELSE IF ~validation.valid
        THEN [ target |-> target, buildMode |-> "traditional",
               reason |-> Msg("Target validation failed: " \o validation.reason.text,
                              validation.reason.arg),
               canUseSEA |-> FALSE, shouldUseSEA |-> FALSE ]
        ELSE IF ~can
        THEN [ target |-> target, buildMode |-> "traditional",
               reason |-> Msg("Node.js ${target.nodeRange} does not support SEA",
                              target.nodeRange),
               canUseSEA |-> FALSE, shouldUseSEA |-> FALSE ]
        ELSE [ target |-> target, buildMode |-> buildMode, reason |-> reason,
               canUseSEA |-> can, shouldUseSEA |-> (buildMode = "sea") ]

\* decideBuildStrategy reporting canUseSEA as shouldUseSEA in its last return
decideBuildStrategy_shouldIsCan(target, opts, host) ==
    LET validation == validateTarget(target)
        can == canUseSEA(target.nodeRange, host)
        strategy == getBuildStrategy(target.nodeRange,
                       [ crossCompile |-> opts.crossCompile,
                         hasComplexRequires |-> opts.hasComplexRequires,
                         hasAssets |-> IF AssetsLength(opts.assets) > 0
                                       THEN "true" ELSE "false" ])
        nodeInfo == getNodeVersionInfo(target.nodeRange)
        buildMode ==
            CASE strategy = "sea" -> "sea"
              [] strategy = "traditional" -> "traditional"
              [] strategy = "hybrid" ->
                    IF nodeInfo.stableSEA THEN "sea" ELSE "traditional"
        reason ==
            CASE strategy = "sea" ->
                    Msg("Optimal for simple projects with stable SEA support", <<>>)
              [] strategy = "traditional" ->
                    Msg("Required for complex projects or cross-compilation", <<>>)
              [] strategy = "hybrid" ->
                    IF nodeInfo.stableSEA
                    THEN Msg("Using SEA for better performance (hybrid mode)", <<>>)
                    ELSE Msg("Using traditional PKG for reliability (hybrid mode)", <<>>)
    IN  IF ~validation.valid
        THEN [ target |-> target, buildMode |-> "traditional",
               reason |-> Msg("Target validation failed: " \o validation.reason.text,
                              validation.reason.arg),
               canUseSEA |-> FALSE, shouldUseSEA |-> FALSE ]
        ELSE IF opts.forceBuildMode # undefined /\ opts.forceBuildMode # "auto"
        THEN [ target |-> target, buildMode |-> opts.forceBuildMode,
               reason |-> Msg("User forced ${options.forceBuildMode} mode",
                              <<opts.forceBuildMode>>),
               canUseSEA |-> can,
               shouldUseSEA |-> (opts.forceBuildMode = "sea" /\ can) ]
        ELSE IF ~can
        THEN [ target |-> target, buildMode |-> "traditional",
               reason |-> Msg("Node.js ${target.nodeRange} does not support SEA",
                              target.nodeRange),
               canUseSEA |-> FALSE, shouldUseSEA |-> FALSE ]
        ELSE [ target |-> target, buildMode |-> buildMode, reason |-> reason,
               canUseSEA |-> can, shouldUseSEA |-> can ]

decideBuildStrategy(target, opts, host) ==
    LET validation == validateTarget(target)
        can == canUseSEA(target.nodeRange, host)
        strategy == getBuildStrategy(target.nodeRange,
                       [ crossCompile |-> opts.crossCompile,
                         hasComplexRequires |-> opts.hasComplexRequires,
                         hasAssets |-> IF AssetsLength(opts.assets) > 0
                                       THEN "true" ELSE "false" ])
        nodeInfo == getNodeVersionInfo(target.nodeRange)
        buildMode ==
            CASE strategy = "sea" -> "sea"
              [] strategy = "traditional" -> "traditional"
              [] strategy = "hybrid" ->
                    IF nodeInfo.stableSEA THEN "sea" ELSE "traditional"
        reason ==
            CASE strategy = "sea" ->
                    Msg("Optimal for simple projects with stable SEA support", <<>>)
              [] strategy = "traditional" ->
                    Msg("Required for complex projects or cross-compilation", <<>>)
              [] strategy = "hybrid" ->
                    IF nodeInfo.stableSEA
                    THEN Msg("Using SEA for better performance (hybrid mode)", <<>>)
                    ELSE Msg("Using traditional PKG for reliability (hybrid mode)", <<>>)
    IN  IF ~validation.valid
        THEN [ target |-> target, buildMode |-> "traditional",
               reason |-> Msg("Target validation failed: " \o validation.reason.text,
                              validation.reason.arg),
               canUseSEA |-> FALSE, shouldUseSEA |-> FALSE ]
        ELSE IF opts.forceBuildMode # undefined /\ opts.forceBuildMode # "auto"
        THEN [ target |-> target, buildMode |-> opts.forceBuildMode,
               reason |-> Msg("User forced ${options.forceBuildMode} mode",
                              <<opts.forceBuildMode>>),
               canUseSEA |-> can,
               shouldUseSEA |-> (opts.forceBuildMode = "sea" /\ can) ]
        ELSE IF ~can
        THEN [ target |-> target, buildMode |-> "traditional",
               reason |-> Msg("Node.js ${target.nodeRange} does not support SEA",
                              target.nodeRange),
               canUseSEA |-> FALSE, shouldUseSEA |-> FALSE ]
        ELSE [ target |-> target, buildMode |-> buildMode, reason |-> reason,
               canUseSEA |-> can, shouldUseSEA |-> (buildMode = "sea") ]

(***************************************************************************)
(* Inputs                                                                  *)
(***************************************************************************)
LatestTag == <<"l", "a", "t", "e", "s", "t">>

\* Tags that are not node<N>: the sentinel, a bare prefix, bare numbers, and
\* numbers followed by other text
OddTags ==
    { LatestTag, NodeChars, <<>>, Digits(7), Digits(20), Digits(21),
      NodeChars \o <<"0", ".", "1", "2">>,
      NodeTag(21) \o <<"x">>, NodeTag(20) \o <<".", "1">>, NodeTag(8) \o <<"a">> }

VersionTags == {NodeTag(n) : n \in 0..MaxMajor} \cup OddTags

Platforms == {"linux", "macos", "win", "alpine", "linuxstatic", "freebsd"}

Archs == {"x64", "arm64", "x86", "ia32"}

Targets == [nodeRange : VersionTags, platform : Platforms, arch : Archs]

Node21LinuxX64 == [nodeRange |-> NodeTag(21), platform |-> "linux", arch |-> "x64"]

Node20LinuxX64 == [nodeRange |-> NodeTag(20), platform |-> "linux", arch |-> "x64"]

ForceModes == {undefined, "auto", "sea", "traditional"}

AssetPaths == {"assets/a.txt"}

AssetLists == {NoArray, Array(<<>>), Array(<<"assets/a.txt">>)}

Hosts == [helpListsSeaConfig : BOOLEAN, assetsOnDisk : SUBSET AssetPaths]

\* The value of a variable that holds nothing yet
None == <<>>

\* Options of a decideBuildStrategy call: the fields the decision reads vary
DecideOptions ==
    [ entrypoint : {"index.js"}, output : {"dist/app"}, targets : {<<>>},
      assets : {NoArray, Array(<<"assets/a.txt">>)},
      useSnapshot : {undefined}, useCodeCache : {undefined},
      forceBuildMode : ForceModes, crossCompile : OptBool,
      hasComplexRequires : OptBool, signBinary : {undefined} ]

HybridIdle ==
    /\ hpc = "idle" /\ decisions = <<>> /\ idx = 0 /\ results = <<>>
    /\ errors = <<>> /\ dispatched = <<>> /\ hret = None

SeaIdle ==
    /\ spc = "idle" /\ seaOptions = None /\ seaConfig = None /\ trace = <<>>
    /\ fsys = [tempDir |-> FALSE, tempFiles |-> {}, output |-> "absent"]
    /\ seaErrors = <<>> /\ seaWarnings = <<>> /\ seaRet = None /\ calls = 0

\* No second build call
NoRival == [pc |-> "idle", overwrote |-> {}]

\* No resolver call
NoFetchArgs == [entry |-> "", nodeRange |-> <<>>, platform |-> "", arch |-> ""]

NoReturn == [kind |-> "none", path |-> "", error |-> Msg("", <<>>)]

FetchIdle ==
    /\ fArgs = NoFetchArgs /\ cache = {} /\ fpc = "idle" /\ binaryInfo = None
    /\ flog = <<>> /\ fret = NoReturn

(***************************************************************************)
(* SpecDecide: decideBuildStrategy applied to every target and option      *)
(***************************************************************************)
InitDecide ==
    /\ env \in {h \in Hosts : h.assetsOnDisk = {}}
    /\ options \in DecideOptions
    /\ dTarget \in Targets
    /\ dlog = <<>>
    /\ HybridIdle
    /\ SeaIdle
    /\ rival = NoRival
    /\ FetchIdle

Decide ==
    /\ Len(dlog) < MaxDecides
    /\ dlog' = Append(dlog, decideBuildStrategy(dTarget, options, env))
    /\ UNCHANGED <<env, options, fvars, rival, dTarget, hvars, svars>>

NextDecide == Decide

SpecDecide == InitDecide /\ [][NextDecide]_vars

(***************************************************************************)
(* Claims about decideBuildStrategy (checked under SpecDecide)             *)
(***************************************************************************)
Decided == Len(dlog) > 0

Forced == options.forceBuildMode # undefined /\ options.forceBuildMode # "auto"

\* C5: a target that fails validateTarget is decided traditional with
\* canUseSEA = false and shouldUseSEA = false, whatever the forced mode and
\* the project traits are.
C5_ValidationPrecedence ==
    \A i \in 1..Len(dlog) :
        ~validateTarget(dTarget).valid =>
            /\ dlog[i].buildMode = "traditional"
            /\ dlog[i].canUseSEA = FALSE
            /\ dlog[i].shouldUseSEA = FALSE

C5_Witness ==
    /\ Decided
    /\ ~validateTarget(dTarget).valid
    /\ options.forceBuildMode = "sea"
    /\ dlog[1].buildMode = "traditional"

\* C6 as stated: with crossCompile = true no decision has buildMode sea,
\* for every forced mode.
C6_Original ==
    \A i \in 1..Len(dlog) :
        Truthy(options.crossCompile) => dlog[i].buildMode # "sea"

\* C6 amended: with crossCompile = true a decision has buildMode sea only
\* when sea was forced; unforced, auto or forced traditional it never has.
C6_CrossCompileRule ==
    \A i \in 1..Len(dlog) :
        (Truthy(options.crossCompile) /\ options.forceBuildMode # "sea")
            => dlog[i].buildMode # "sea"

C6_Witness ==
    /\ Decided
    /\ Truthy(options.crossCompile)
    /\ ~Forced
    /\ dTarget = Node21LinuxX64
    /\ env.helpListsSeaConfig
    /\ dlog[1].buildMode = "traditional"
    /\ dlog[1].canUseSEA

\* C7 as stated: shouldUseSEA is true iff buildMode is sea, in every decision.
C7_Original ==
    \A i \in 1..Len(dlog) :
        dlog[i].shouldUseSEA <=> (dlog[i].buildMode = "sea")

\* C7 amended: shouldUseSEA implies buildMode sea, and a decision with
\* buildMode sea has shouldUseSEA false only when sea was forced for a target
\* whose canUseSEA is false.
C7_ShouldIffMode ==
    \A i \in 1..Len(dlog) :
        /\ dlog[i].shouldUseSEA => dlog[i].buildMode = "sea"
        /\ (dlog[i].buildMode = "sea" /\ ~dlog[i].shouldUseSEA)
              => (options.forceBuildMode = "sea" /\ ~dlog[i].canUseSEA)

C7_Witness ==
    /\ Decided
    /\ ~Forced
    /\ dlog[1].buildMode = "sea"
    /\ dlog[1].shouldUseSEA

\* C8: for a valid target and a forced mode sea or traditional, buildMode is
\* the forced mode and shouldUseSEA = (forced = sea) AND hasNativeSEA of the
\* target version.
C8_ForcedMode ==
    \A i \in 1..Len(dlog) :
        (validateTarget(dTarget).valid /\ Forced) =>
            /\ dlog[i].buildMode = options.forceBuildMode
            /\ dlog[i].shouldUseSEA =
                  (options.forceBuildMode = "sea"
                     /\ getSEACapabilities(dTarget.nodeRange).hasNativeSEA)

AutoModeIs(d, native) ==
    /\ d.buildMode \in {"sea", "traditional"}
    /\ (d.buildMode = "sea") <=> native

\* C9 as stated: unforced, for a valid target whose version has native SEA,
\* buildMode is sea exactly when crossCompile and hasComplexRequires are
\* false and the version is stable; node21-linux-x64 without either trait is
\* decided sea with shouldUseSEA.
C9_Original ==
    \A i \in 1..Len(dlog) :
        (~Forced /\ validateTarget(dTarget).valid
           /\ getSEACapabilities(dTarget.nodeRange).hasNativeSEA) =>
            /\ AutoModeIs(dlog[i],
                          /\ ~Truthy(options.crossCompile)
                          /\ ~Truthy(options.hasComplexRequires)
                          /\ getNodeVersionInfo(dTarget.nodeRange).stableSEA)
            /\ (dTarget = Node21LinuxX64 /\ ~Truthy(options.crossCompile)
                  /\ ~Truthy(options.hasComplexRequires))
                 => (dlog[i].buildMode = "sea" /\ dlog[i].shouldUseSEA)

\* C9 amended: the same, with the further condition that the host's
\* `node --help` lists --experimental-sea-config; on a host that does not,
\* every such target is decided traditional.
C9_AutomaticDecision ==
    \A i \in 1..Len(dlog) :
        (~Forced /\ validateTarget(dTarget).valid
           /\ getSEACapabilities(dTarget.nodeRange).hasNativeSEA) =>
            /\ AutoModeIs(dlog[i],
                          /\ ~Truthy(options.crossCompile)
                          /\ ~Truthy(options.hasComplexRequires)
                          /\ getNodeVersionInfo(dTarget.nodeRange).stableSEA
                          /\ env.helpListsSeaConfig)
            /\ (dTarget = Node21LinuxX64 /\ ~Truthy(options.crossCompile)
                  /\ ~Truthy(options.hasComplexRequires)
                  /\ env.helpListsSeaConfig)
                 => (dlog[i].buildMode = "sea" /\ dlog[i].shouldUseSEA)

C9_Witness ==
    /\ Decided
    /\ ~Forced
    /\ dTarget = Node21LinuxX64
    /\ ~Truthy(options.crossCompile)
    /\ ~Truthy(options.hasComplexRequires)
    /\ env.helpListsSeaConfig
    /\ dlog[1].buildMode = "sea"
    /\ dlog[1].shouldUseSEA

\* C10: node20-linux-x64, unforced, without cross-compilation or complex
\* requires, is decided traditional with the pre-stability reason of the
\* hybrid branch, which is not the reason given to a version without SEA.
C10_Node20Scenario ==
    \A i \in 1..Len(dlog) :
        (dTarget = Node20LinuxX64 /\ ~Forced
           /\ ~Truthy(options.crossCompile)
           /\ ~Truthy(options.hasComplexRequires)) =>
            /\ dlog[i].buildMode = "traditional"
            /\ dlog[i].reason.text =
                  "Using traditional PKG for reliability (hybrid mode)"
            /\ dlog[i].reason.text #
                  "Node.js ${target.nodeRange} does not support SEA"

Node8LinuxX64 == [nodeRange |-> NodeTag(8), platform |-> "linux", arch |-> "x64"]

Node7LinuxX64 == [nodeRange |-> NodeTag(7), platform |-> "linux", arch |-> "x64"]

\* C11 as stated: node8-linux-x64 with sea forced is decided traditional with
\* canUseSEA = false, as an unsupported target is.
C11_Original ==
    \A i \in 1..Len(dlog) :
        (dTarget = Node8LinuxX64 /\ options.forceBuildMode = "sea") =>
            /\ dlog[i].buildMode = "traditional"
            /\ dlog[i].canUseSEA = FALSE

\* C11 amended: node8 is inside the supported range 8..24, so for
\* node8-linux-x64 a forced sea mode is honoured (buildMode sea, the forced
\* reason) with canUseSEA = false and shouldUseSEA = false; it is the
\* unsupported node7-linux-x64 that, sea forced, is decided traditional with
\* canUseSEA = false.
C11_Node8Scenario ==
    \A i \in 1..Len(dlog) :
        options.forceBuildMode = "sea" =>
            /\ dTarget = Node8LinuxX64 =>
                  /\ dlog[i].buildMode = "sea"
                  /\ dlog[i].reason.text = "User forced ${options.forceBuildMode} mode"
                  /\ dlog[i].canUseSEA = FALSE
                  /\ dlog[i].shouldUseSEA = FALSE
            /\ dTarget = Node7LinuxX64 =>
                  /\ dlog[i].buildMode = "traditional"
                  /\ dlog[i].canUseSEA = FALSE
                  /\ dlog[i].shouldUseSEA = FALSE

C11_Witness ==
    /\ Decided
    /\ dTarget = Node8LinuxX64
    /\ options.forceBuildMode = "sea"
    /\ dlog[1].buildMode = "sea"
    /\ ~dlog[1].canUseSEA

VersionNotSupported ==
    "Node.js version ${target.nodeRange} is not supported. Supported versions: 8-24"

PlatformNotSupported ==
    "Platform ${target.platform} is not supported. Supported platforms: linux, macos, win, alpine, linuxstatic"

ArchNotSupported ==
    "Architecture ${target.arch} is not supported. Supported architectures: x64, arm64, x86"

ValidationFailed(text) == "Target validation failed: " \o text

\* C13: validateTarget answers valid = true exactly when the version is
\* isSupported, the platform is one of linux, macos, win, alpine, linuxstatic
\* and the arch is one of x64, arm64, x86; an unsupported version is what is
\* reported whatever the platform and arch are, an unsupported platform is
\* reported before an unsupported arch, and the decision carries that reason.
C13_ValidatorExact ==
    LET supported == getNodeVersionInfo(dTarget.nodeRange).isSupported
        platformOk == dTarget.platform \in {"linux", "macos", "win", "alpine", "linuxstatic"}
        archOk == dTarget.arch \in {"x64", "arm64", "x86"}
        validation == validateTarget(dTarget)
        expected == IF ~supported THEN Msg(VersionNotSupported, dTarget.nodeRange)
                    ELSE IF ~platformOk THEN Msg(PlatformNotSupported, <<dTarget.platform>>)
                    ELSE Msg(ArchNotSupported, <<dTarget.arch>>)
    IN  /\ validation.valid = (supported /\ platformOk /\ archOk)
        /\ ~validation.valid => validation.reason = expected
        /\ \A i \in 1..Len(dlog) :
              IF supported /\ platformOk /\ archOk
              THEN dlog[i].reason.text \notin
                      { ValidationFailed(t) :
                          t \in {VersionNotSupported, PlatformNotSupported, ArchNotSupported} }
              ELSE dlog[i].reason = Msg(ValidationFailed(expected.text), expected.arg)

C13_Witness ==
    /\ Decided
    /\ ~getNodeVersionInfo(dTarget.nodeRange).isSupported
    /\ dTarget.platform = "freebsd"
    /\ dTarget.arch = "ia32"
    /\ dlog[1].reason.text = ValidationFailed(VersionNotSupported)

\* Some version supports SEA without being stable
SomeVersionSupportedNotStable ==
    \E v \in VersionTags :
        getNodeVersionInfo(v).supportsSEA /\ ~getNodeVersionInfo(v).stableSEA

NoCapabilities ==
    [ hasNativeSEA |-> FALSE, supportsAssets |-> FALSE, supportsSnapshot |-> FALSE,
      supportsCodeCache |-> FALSE, requiresPostject |-> FALSE ]

\* C23: for every version string stableSEA implies supportsSEA and supportsSEA
\* implies isSupported; some version has supportsSEA without stableSEA; and a
\* version with isSupported = false has supportsSEA = false, stableSEA = false
\* and every flag of getSEACapabilities false.
C23_CapabilityOrdering ==
    LET info == getNodeVersionInfo(dTarget.nodeRange)
    IN  /\ info.stableSEA => info.supportsSEA
        /\ info.supportsSEA => info.isSupported
        /\ ~info.isSupported =>
              /\ ~info.supportsSEA
              /\ ~info.stableSEA
              /\ getSEACapabilities(dTarget.nodeRange) = NoCapabilities
        /\ SomeVersionSupportedNotStable
        /\ \A i \in 1..Len(dlog) :
              dlog[i].canUseSEA => (info.stableSEA /\ info.supportsSEA /\ info.isSupported)

C23_Witness ==
    /\ Decided
    /\ getNodeVersionInfo(dTarget.nodeRange).supportsSEA
    /\ ~getNodeVersionInfo(dTarget.nodeRange).stableSEA
    /\ getNodeVersionInfo(dTarget.nodeRange).isSupported
    /\ ~dlog[1].canUseSEA

\* The versions listed in the ABI table
AbiTableVersions == {EXTENDED_ABI_MAPPING[i].node : i \in 1..Len(EXTENDED_ABI_MAPPING)}

\* 'm' + abi for a number abi
AbiKey(abi) == <<"m">> \o Digits(abi)

\* What pkg-fetch could answer for a key the table lacks
SystemAnswers(abi) == {abi, NodeTag(22), <<"m", "0">>}

\* No key of the ABI table is listed twice
AbiKeysDistinct ==
    \A i \in 1..Len(EXTENDED_ABI_MAPPING) : \A j \in 1..Len(EXTENDED_ABI_MAPPING) :
        EXTENDED_ABI_MAPPING[i].abi = EXTENDED_ABI_MAPPING[j].abi => i = j

\* C24: a version that supports SEA is listed in the ABI table exactly once and
\* its ABI is not zero; two different versions with an ABI never have the same
\* one; and for a version v listed in the table, looking up 'm' followed by the
\* ABI of v gives back v, whatever pkg-fetch would answer for unlisted keys.
C24_AbiMapping ==
    LET v == dTarget.nodeRange
        info == getNodeVersionInfo(v)
        listed == {i \in 1..Len(EXTENDED_ABI_MAPPING) :
                      EXTENDED_ABI_MAPPING[i].node = info.version}
    IN  /\ info.supportsSEA =>
              /\ Cardinality(listed) = 1
              /\ Cardinality(info.abi) = 1
              /\ 0 \notin info.abi
        /\ \A i \in 1..Len(EXTENDED_ABI_MAPPING) :
              (EXTENDED_ABI_MAPPING[i].node # info.version /\ 0 \notin info.abi) =>
                  ParseInt(Tail(EXTENDED_ABI_MAPPING[i].abi)) # info.abi
        /\ AbiKeysDistinct
        /\ v \in AbiTableVersions =>
              \A n \in info.abi : \A answer \in SystemAnswers(AbiKey(n)) :
                  enhancedAbiToNodeRange(AbiKey(n), answer) = v

C24_Witness ==
    /\ Decided
    /\ dTarget.nodeRange \in AbiTableVersions
    /\ getNodeVersionInfo(dTarget.nodeRange).supportsSEA
    /\ getNodeVersionInfo(dTarget.nodeRange).abi = {127}
    /\ enhancedAbiToNodeRange(AbiKey(127), AbiKey(127)) = dTarget.nodeRange

(***************************************************************************)
(* SEABuilder: the native assembly pipeline                                *)
(*                                                                         *)
(* build is an async method; each action below is the code between two of  *)
(* its awaits.  A step that throws runs the catch block of build in the    *)
(* same action (errors.push, the failed result) and goes on to the finally *)
(* block.                                                                  *)
(***************************************************************************)
\* this.tempDir = path.join(process.cwd(), '.pkg-temp')
tempDir == ".pkg-temp"

ConfigFile == "sea-config.json"

BlobFile == "sea-prep.blob"

\* path.basename(output, path.extname(output)) + extension
binaryName(opts) ==
    "basename(" \o opts.output \o ")" \o (IF opts.platform = "win" THEN ".exe" ELSE "")

\* How a spawned tool can end: exit code 0, a nonzero exit code, killed by
\* a signal (exit code null), or not spawned at all (the child emits 'error',
\* for which runCommand registers no listener, so the promise never settles
\* and the error is thrown in the host process)
ToolOutcomes == {"exit0", "exitN", "signal", "absent"}

\* `node` itself is spawned from the running node installation
NodeOutcomes == {"exit0", "exitN", "signal"}

FsOutcomes == {"ok", "error"}

\* A runCommand whose exit code is always 0
exitCodeOf_ignored(outcome) == 0

\* runCommand: resolve({ exitCode: exitCode || 0, stdout, stderr })
exitCodeOf(outcome) == IF outcome = "exitN" THEN 1 ELSE 0

Ran(cmd, args, outcome) == [cmd |-> cmd, args |-> args, outcome |-> outcome]

\* A platform test that lets every platform through
SigningPlatform_any(platform) == TRUE

\* options.platform === 'macos' || options.platform === 'win'
SigningPlatform(platform) == platform = "macos" \/ platform = "win"

\* The failed result built by the catch block of build
FailedResult(errs, warns) ==
    [ success |-> FALSE, outputPath |-> "", size |-> "0", buildTime |-> "buildTime",
      warnings |-> warns, errors |-> errs ]

\* A throw whose catch block returns without the finally block being run
Throw_noFinally(message) ==
    /\ seaErrors' = Append(seaErrors, message)
    /\ seaRet' = FailedResult(Append(seaErrors, message), seaWarnings)
    /\ spc' = "returned"

\* throw inside the try block of build: the catch block, then on to finally
Throw(message) ==
    /\ seaErrors' = Append(seaErrors, message)
    /\ seaRet' = FailedResult(Append(seaErrors, message), seaWarnings)
    /\ spc' = "finally"

\* The step after blob injection
AfterInject(opts) ==
    IF Truthy(opts.signBinary) /\ SigningPlatform(opts.platform)
    THEN "signBinary" ELSE "moveToFinalLocation"

\* convertAssetsToSEAFormat: the assets that exist on disk, keyed by their
\* path relative to the working directory
convertAssetsToSEAFormat(assets, host) ==
    { [key |-> "relative(" \o assets[i] \o ")", path |-> assets[i]] :
        i \in {j \in 1..Len(assets) : assets[j] \in host.assetsOnDisk} }

\* A config whose code cache has to be asked for
createSEAConfig_codeCacheOptIn(opts, host) ==
    LET capabilities == getSEACapabilities(opts.nodeVersion)
    IN  [ main |-> opts.entrypoint,
          output |-> tempDir \o "/" \o BlobFile,
          disableExperimentalSEAWarning |-> "true",
          useSnapshot |-> IF capabilities.supportsSnapshot /\ Truthy(opts.useSnapshot)
                          THEN "true" ELSE undefined,
          useCodeCache |-> IF capabilities.supportsCodeCache /\ Truthy(opts.useCodeCache)
                           THEN "true" ELSE undefined,
          assets |-> IF capabilities.supportsAssets /\ opts.assets.defined
                     THEN [defined |-> TRUE,
                           map |-> convertAssetsToSEAFormat(opts.assets.list, host)]
                     ELSE [defined |-> FALSE, map |-> {}] ]

\* The SEAConfig record of createSEAConfig; an absent key is undefined / None
createSEAConfig(opts, host) ==
    LET capabilities == getSEACapabilities(opts.nodeVersion)
    IN  [ main |-> opts.entrypoint,
          output |-> tempDir \o "/" \o BlobFile,
          disableExperimentalSEAWarning |-> "true",
          useSnapshot |-> IF capabilities.supportsSnapshot /\ Truthy(opts.useSnapshot)
                          THEN "true" ELSE undefined,
          useCodeCache |-> IF capabilities.supportsCodeCache /\ opts.useCodeCache # "false"
                           THEN "true" ELSE undefined,
          assets |-> IF capabilities.supportsAssets /\ opts.assets.defined
                     THEN [defined |-> TRUE,
                           map |-> convertAssetsToSEAFormat(opts.assets.list, host)]
                     ELSE [defined |-> FALSE, map |-> {}] ]

\* cleanup: fs.rm(tempDir, { recursive: true, force: true }), errors ignored
cleanup(fs, outcome) ==
    IF outcome = "ok" THEN [fs EXCEPT !.tempDir = FALSE, !.tempFiles = {}]
    ELSE fs

\* build entered: the locals are fresh, the capability check is awaited next
SeaEnter(opts) ==
    /\ seaOptions' = opts
    /\ seaConfig' = None
    /\ seaErrors' = <<>>
    /\ seaWarnings' = <<>>
    /\ seaRet' = None
    /\ trace' = <<>>
    /\ calls' = calls + 1
    /\ spc' = "canUseSEA"
    /\ UNCHANGED fsys

\* SEABuilder.build called by a client of the class
SeaStart ==
    /\ spc \in {"idle", "returned"}
    /\ calls < MaxCalls
    /\ SeaEnter(seaOptions)
    /\ UNCHANGED <<env, options, fvars, rival, dvars, hvars>>

\* const canUse = await this.canUseSEA(options.nodeVersion); if (!canUse) throw
SeaCapabilityCheck ==
    /\ spc = "canUseSEA"
    /\ trace' = IF hasStableSEA(seaOptions.nodeVersion)
                THEN Append(trace, Ran("node", <<"--help">>, "exit0"))
                ELSE trace
    /\ IF canUseSEA(seaOptions.nodeVersion, env)
       THEN /\ spc' = "ensureTempDir"
            /\ UNCHANGED <<seaErrors, seaRet>>
       ELSE Throw(Msg("Node.js ${options.nodeVersion} does not support SEA or SEA is not available",
                      seaOptions.nodeVersion))
    /\ UNCHANGED <<env, options, fvars, rival, dvars, hvars, seaOptions, fsys, seaConfig,
                   seaWarnings, calls>>

\* await this.ensureTempDir(): fs.mkdir recursive, errors ignored
SeaEnsureTempDir ==
    /\ spc = "ensureTempDir"
    /\ \E outcome \in FsOutcomes :
        /\ trace' = Append(trace, Ran("fs.mkdir", <<tempDir>>, outcome))
        /\ fsys' = IF outcome = "ok" THEN [fsys EXCEPT !.tempDir = TRUE] ELSE fsys
    /\ spc' = "createSEAConfig"
    /\ UNCHANGED <<env, options, fvars, rival, dvars, hvars, seaOptions, seaConfig, seaErrors,
                   seaWarnings, seaRet, calls>>

\* const seaConfig = await this.createSEAConfig(options): the record, then
\* fs.writeFile of sea-config.json, which throws when the directory is missing
SeaCreateConfig ==
    /\ spc = "createSEAConfig"
    /\ \E outcome \in FsOutcomes :
        /\ (~fsys.tempDir => outcome = "error")
        /\ trace' = Append(trace, Ran("fs.writeFile", <<tempDir \o "/" \o ConfigFile>>, outcome))
        /\ IF outcome = "ok"
           THEN /\ seaConfig' = createSEAConfig(seaOptions, env)
                /\ fsys' = [fsys EXCEPT !.tempFiles = @ \cup {ConfigFile}]
                /\ spc' = "generateBlob"
                /\ UNCHANGED <<seaErrors, seaRet>>
           ELSE /\ Throw(Msg("fs.writeFile failed", <<ConfigFile>>))
                /\ UNCHANGED <<seaConfig, fsys>>
    /\ UNCHANGED <<env, options, fvars, rival, dvars, hvars, seaOptions, seaWarnings, calls>>

\* await this.generateBlob(seaConfig): node --experimental-sea-config, which
\* cannot succeed on a config file that is not there
SeaGenerateBlob ==
    /\ spc = "generateBlob"
    /\ \E outcome \in NodeOutcomes :
        /\ (ConfigFile \notin fsys.tempFiles => outcome # "exit0")
        /\ trace' = Append(trace, Ran("node", <<"--experimental-sea-config",
                                               tempDir \o "/" \o ConfigFile>>, outcome))
        /\ fsys' = IF outcome = "exit0" /\ fsys.tempDir
                   THEN [fsys EXCEPT !.tempFiles = @ \cup {BlobFile}] ELSE fsys
        /\ IF exitCodeOf(outcome) # 0
           THEN Throw(Msg("Failed to generate SEA blob: ${result.stderr}",
                          <<"stderr of node --experimental-sea-config">>))
           ELSE /\ spc' = "copyNodeBinary"
                /\ UNCHANGED <<seaErrors, seaRet>>
    /\ UNCHANGED <<env, options, fvars, rival, dvars, hvars, seaOptions, seaConfig, seaWarnings, calls>>

\* const binaryPath = await this.copyNodeBinary(options): fs.copyFile of
\* process.execPath; then the platform test of step 4
SeaCopyNodeBinary ==
    /\ spc = "copyNodeBinary"
    /\ \E outcome \in FsOutcomes :
        /\ (~fsys.tempDir => outcome = "error")
        /\ trace' = Append(trace, Ran("fs.copyFile", <<"process.execPath",
                                        tempDir \o "/" \o binaryName(seaOptions)>>, outcome))
        /\ IF outcome = "ok"
           THEN /\ fsys' = [fsys EXCEPT !.tempFiles = @ \cup {binaryName(seaOptions)}]
                /\ spc' = IF SigningPlatform(seaOptions.platform)
                          THEN "removeSignature" ELSE "injectBlob"
                /\ UNCHANGED <<seaErrors, seaRet>>
           ELSE /\ Throw(Msg("fs.copyFile failed", <<binaryName(seaOptions)>>))
                /\ UNCHANGED fsys
    /\ UNCHANGED <<env, options, fvars, rival, dvars, hvars, seaOptions, seaConfig, seaWarnings, calls>>

\* await this.removeSignature(binaryPath, options.platform): the exit code is
\* not looked at; runCommand never rejects, so the try/catch of the Windows
\* branch catches nothing
SeaRemoveSignature ==
    /\ spc = "removeSignature"
    /\ \E outcome \in ToolOutcomes :
        /\ trace' = Append(trace,
              IF seaOptions.platform = "macos"
              THEN Ran("codesign", <<"--remove-signature",
                                     tempDir \o "/" \o binaryName(seaOptions)>>, outcome)
              ELSE Ran("signtool", <<"remove", "/s",
                                     tempDir \o "/" \o binaryName(seaOptions)>>, outcome))
        /\ spc' = IF outcome = "absent" THEN "crashed" ELSE "injectBlob"
    /\ UNCHANGED <<env, options, fvars, rival, dvars, hvars, seaOptions, fsys, seaConfig, seaErrors,
                   seaWarnings, seaRet, calls>>

\* The arguments injectBlob hands to `npx`
postjectArgs(opts, config) ==
    <<"postject", tempDir \o "/" \o binaryName(opts), "NODE_SEA_BLOB", config.output,
      "--sentinel-fuse", "NODE_SEA_FUSE_fce680ab2cc467b6e072b8b5df1996b2">>
    \o (IF opts.platform = "macos" THEN <<"--macho-segment-name", "NODE_SEA">> ELSE <<>>)

\* await this.injectBlob(binaryPath, seaConfig.output, options.platform), which
\* cannot succeed on a binary that is not there; then the signBinary test of
\* step 6
SeaInjectBlob ==
    /\ spc = "injectBlob"
    /\ \E outcome \in ToolOutcomes :
        /\ (binaryName(seaOptions) \notin fsys.tempFiles => outcome # "exit0")
        /\ trace' = Append(trace, Ran("npx", postjectArgs(seaOptions, seaConfig), outcome))
        /\ IF outcome = "absent"
           THEN /\ spc' = "crashed"
                /\ UNCHANGED <<seaErrors, seaRet>>
           ELSE IF exitCodeOf(outcome) # 0
           THEN Throw(Msg("Failed to inject blob: ${result.stderr}",
                          <<"stderr of npx postject">>))
           ELSE /\ spc' = AfterInject(seaOptions)
                /\ UNCHANGED <<seaErrors, seaRet>>
    /\ UNCHANGED <<env, options, fvars, rival, dvars, hvars, seaOptions, fsys, seaConfig,
                   seaWarnings, calls>>

\* await this.signBinary(binaryPath, options.platform): as removeSignature
SeaSignBinary ==
    /\ spc = "signBinary"
    /\ \E outcome \in ToolOutcomes :
        /\ trace' = Append(trace,
              IF seaOptions.platform = "macos"
              THEN Ran("codesign", <<"--sign", "-",
                                     tempDir \o "/" \o binaryName(seaOptions)>>, outcome)
              ELSE Ran("signtool", <<"sign", "/fd", "SHA256",
                                     tempDir \o "/" \o binaryName(seaOptions)>>, outcome))
        /\ spc' = IF outcome = "absent" THEN "crashed" ELSE "moveToFinalLocation"
    /\ UNCHANGED <<env, options, fvars, rival, dvars, hvars, seaOptions, fsys, seaConfig, seaErrors,
                   seaWarnings, seaRet, calls>>

\* const finalPath = await this.moveToFinalLocation(binaryPath, options.output):
\* fs.rename, which throws when the binary is not there any more
SeaMoveToFinalLocation ==
    /\ spc = "moveToFinalLocation"
    /\ \E outcome \in FsOutcomes :
        /\ (binaryName(seaOptions) \notin fsys.tempFiles => outcome = "error")
        /\ trace' = Append(trace, Ran("fs.rename", <<tempDir \o "/" \o binaryName(seaOptions),
                                                     seaOptions.output>>, outcome))
        /\ IF outcome = "ok"
           THEN /\ fsys' = [fsys EXCEPT !.tempFiles = @ \ {binaryName(seaOptions)},
                                        !.output = "built"]
                /\ spc' = "stat"
                /\ UNCHANGED <<seaErrors, seaRet>>
           ELSE /\ Throw(Msg("fs.rename failed", <<seaOptions.output>>))
                /\ UNCHANGED fsys
    /\ UNCHANGED <<env, options, fvars, rival, dvars, hvars, seaOptions, seaConfig, seaWarnings, calls>>

\* const stats = await fs.stat(finalPath); return { success: true, ... }
SeaStat ==
    /\ spc = "stat"
    /\ \E outcome \in FsOutcomes :
        /\ trace' = Append(trace, Ran("fs.stat", <<seaOptions.output>>, outcome))
        /\ IF outcome = "ok"
           THEN /\ seaRet' = [ success |-> TRUE, outputPath |-> seaOptions.output,
                               size |-> "stats.size", buildTime |-> "buildTime",
                               warnings |-> seaWarnings, errors |-> seaErrors ]
                /\ spc' = "finally"
                /\ UNCHANGED seaErrors
           ELSE Throw(Msg("fs.stat failed", <<seaOptions.output>>))
    /\ UNCHANGED <<env, options, fvars, rival, dvars, hvars, seaOptions, fsys, seaConfig,
                   seaWarnings, calls>>

\* finally { await this.cleanup() }, after which the pending result is returned
SeaCleanup ==
    /\ spc = "finally"
    /\ \E outcome \in FsOutcomes :
        /\ trace' = Append(trace, Ran("fs.rm", <<tempDir>>, outcome))
        /\ fsys' = cleanup(fsys, outcome)
    /\ spc' = "returned"
    /\ UNCHANGED <<env, options, fvars, rival, dvars, hvars, seaOptions, seaConfig, seaErrors,
                   seaWarnings, seaRet, calls>>

SeaStep ==
    \/ SeaCapabilityCheck
    \/ SeaEnsureTempDir
    \/ SeaCreateConfig
    \/ SeaGenerateBlob
    \/ SeaCopyNodeBinary
    \/ SeaRemoveSignature
    \/ SeaInjectBlob
    \/ SeaSignBinary
    \/ SeaMoveToFinalLocation
    \/ SeaStat
    \/ SeaCleanup

(***************************************************************************)
(* SpecSEA: SEABuilder.build called directly, one call after the other     *)
(***************************************************************************)
PipelineVersions == {NodeTag(18), NodeTag(20), NodeTag(21), Digits(22)}

PipelinePlatforms == {"linux", "macos", "win", "alpine", "linuxstatic"}

SEABuildOptions ==
    [ entrypoint : {"index.js"}, output : {"dist/app"},
      nodeVersion : PipelineVersions, platform : PipelinePlatforms, arch : {"x64"},
      assets : AssetLists, useSnapshot : OptBool, useCodeCache : OptBool,
      signBinary : OptBool ]

NoOptions ==
    [ entrypoint |-> "index.js", output |-> "dist/app", targets |-> <<>>,
      assets |-> NoArray, useSnapshot |-> undefined, useCodeCache |-> undefined,
      forceBuildMode |-> undefined, crossCompile |-> undefined,
      hasComplexRequires |-> undefined, signBinary |-> undefined ]

NoTarget == [nodeRange |-> <<>>, platform |-> "", arch |-> ""]

InitSEA ==
    /\ env \in Hosts
    /\ options = NoOptions
    /\ dTarget = NoTarget
    /\ dlog = <<>>
    /\ HybridIdle
    /\ spc = "idle"
    /\ seaOptions \in SEABuildOptions
    /\ seaConfig = None
    /\ trace = <<>>
    /\ fsys \in [tempDir : {FALSE}, tempFiles : {{}}, output : {"absent", "old"}]
    /\ seaErrors = <<>>
    /\ seaWarnings = <<>>
    /\ seaRet = None
    /\ calls = 0
    /\ rival = NoRival
    /\ FetchIdle

NextSEA == SeaStart \/ SeaStep

SpecSEA == InitSEA /\ [][NextSEA]_vars

(***************************************************************************)
(* Two overlapping SEABuilder.build calls                                  *)
(*                                                                         *)
(* The second call (of the same builder or of another one: every builder's *)
(* tempDir is process.cwd()/.pkg-temp) is reduced to what it does to the   *)
(* working directory: the same steps, for a linux target with another      *)
(* output name, interleaved with the first call at the awaits.             *)
(***************************************************************************)
\* The steps of the second call between its capability check and its cleanup
RivalSteps ==
    <<"ensureTempDir", "createSEAConfig", "generateBlob", "copyNodeBinary",
      "injectBlob", "moveToFinalLocation">>

\* The temp directory of the second call: path.join(process.cwd(), '.pkg-temp')
rivalTempDir == ".pkg-temp"

rivalBinary == "basename(dist/other)"

\* The step after pc
RivalAfter(pc) ==
    LET i == CHOOSE j \in 1..Len(RivalSteps) : RivalSteps[j] = pc
    IN  IF i = Len(RivalSteps) THEN "finally" ELSE RivalSteps[i + 1]

\* The files of the working directory that a step needs to find there
RivalReads(pc) ==
    CASE pc = "generateBlob" -> {ConfigFile}
      [] pc = "injectBlob" -> {BlobFile, rivalBinary}
      [] pc = "moveToFinalLocation" -> {rivalBinary}
      [] OTHER -> {}

\* The files of the working directory that a step writes
RivalWrites(pc) ==
    CASE pc = "createSEAConfig" -> {ConfigFile}
      [] pc = "generateBlob" -> {BlobFile}
      [] pc = "copyNodeBinary" -> {rivalBinary}
      [] OTHER -> {}

\* The files the first call has written into the working directory so far
MainWrote ==
    { ConfigFile : i \in {j \in 1..Len(trace) :
          trace[j].cmd = "fs.writeFile" /\ trace[j].outcome = "ok"} }
    \cup { BlobFile : i \in {j \in 1..Len(trace) :
          /\ trace[j].cmd = "node" /\ trace[j].outcome = "exit0"
          /\ trace[j].args[1] = "--experimental-sea-config"} }
    \cup { binaryName(seaOptions) : i \in {j \in 1..Len(trace) :
          trace[j].cmd = "fs.copyFile" /\ trace[j].outcome = "ok"} }

\* The files the first call has written and has yet to read
MainNeeds ==
    MainWrote \cap
        CASE spc = "generateBlob" -> {ConfigFile}
          [] spc \in {"copyNodeBinary", "removeSignature"} -> {BlobFile}
          [] spc = "injectBlob" -> {BlobFile, binaryName(seaOptions)}
          [] spc \in {"signBinary", "moveToFinalLocation"} -> {binaryName(seaOptions)}
          [] OTHER -> {}

\* A second build call is made while the first one may be under way
RivalStart ==
    /\ rival.pc = "idle"
    /\ rival' = [rival EXCEPT !.pc = "canUseSEA"]
    /\ UNCHANGED <<env, options, dvars, hvars, fvars, svars>>

\* Its capability check: no file is touched
RivalCapabilityCheck ==
    /\ rival.pc = "canUseSEA"
    /\ rival' = [rival EXCEPT !.pc = IF env.helpListsSeaConfig
                                     THEN "ensureTempDir" ELSE "finally"]
    /\ UNCHANGED <<env, options, dvars, hvars, fvars, svars>>

\* One of its steps: it fails (a missing file makes it fail) and goes to the
\* finally block, a failing mkdir being ignored; or it writes its files into
\* .pkg-temp, over the first call's files of the same name, and goes on
RivalStep ==
    /\ Includes(RivalSteps, rival.pc)
    /\ \E ok \in BOOLEAN :
        /\ (ok /\ rival.pc # "ensureTempDir") =>
              (fsys.tempDir /\ RivalReads(rival.pc) \subseteq fsys.tempFiles)
        /\ IF ok
           THEN /\ fsys' = CASE rival.pc = "ensureTempDir" ->
                                  [fsys EXCEPT !.tempDir = TRUE]
                             [] rival.pc = "moveToFinalLocation" ->
                                  [fsys EXCEPT !.tempFiles = @ \ {rivalBinary}]
                             [] OTHER ->
                                  [fsys EXCEPT !.tempFiles = @ \cup RivalWrites(rival.pc)]
                /\ rival' = [ pc |-> RivalAfter(rival.pc),
                              overwrote |-> rival.overwrote \cup
                                  { <<calls, f>> : f \in RivalWrites(rival.pc) \cap MainNeeds } ]
           ELSE /\ rival' = [rival EXCEPT !.pc = IF rival.pc = "ensureTempDir"
                                                  THEN RivalAfter(rival.pc)
                                                  ELSE "finally"]
                /\ UNCHANGED fsys
    /\ UNCHANGED <<env, options, dvars, hvars, fvars, spc, seaOptions, seaConfig,
                   trace, seaErrors, seaWarnings, seaRet, calls>>

\* Its finally block: fs.rm of .pkg-temp, whatever is in it
RivalCleanup ==
    /\ rival.pc = "finally"
    /\ \E outcome \in FsOutcomes : fsys' = cleanup(fsys, outcome)
    /\ rival' = [rival EXCEPT !.pc = "returned"]
    /\ UNCHANGED <<env, options, dvars, hvars, fvars, spc, seaOptions, seaConfig,
                   trace, seaErrors, seaWarnings, seaRet, calls>>

PairBuildOptions ==
    [ entrypoint : {"index.js"}, output : {"dist/app"},
      nodeVersion : {NodeTag(21)}, platform : {"linux", "macos"}, arch : {"x64"},
      assets : {NoArray}, useSnapshot : {undefined}, useCodeCache : {undefined},
      signBinary : {undefined, "true"} ]

InitPair ==
    /\ env \in {h \in Hosts : h.assetsOnDisk = {}}
    /\ options = NoOptions
    /\ dTarget = NoTarget
    /\ dlog = <<>>
    /\ HybridIdle
    /\ spc = "idle"
    /\ seaOptions \in PairBuildOptions
    /\ seaConfig = None
    /\ trace = <<>>
    /\ fsys = [tempDir |-> FALSE, tempFiles |-> {}, output |-> "absent"]
    /\ seaErrors = <<>>
    /\ seaWarnings = <<>>
    /\ seaRet = None
    /\ calls = 0
    /\ rival = NoRival
    /\ FetchIdle

NextPair ==
    \/ SeaStart
    \/ SeaStep
    \/ RivalStart
    \/ RivalCapabilityCheck
    \/ RivalStep
    \/ RivalCleanup

SpecPair == InitPair /\ [][NextPair]_vars

(***************************************************************************)
(* HybridBuilder: the orchestrator                                         *)
(***************************************************************************)
\* A version tag as a JavaScript string
RECURSIVE Str(_)
Str(chars) == IF chars = <<>> THEN "" ELSE Head(chars) \o Str(Tail(chars))

\* `${target.nodeRange}-${target.platform}-${target.arch}`
TripleOf(target) == Str(target.nodeRange) \o "-" \o target.platform \o "-" \o target.arch

\* generateTargetOutput: path.extname(baseOutput) throws a TypeError when
\* baseOutput is not a string
generateTargetOutputThrows(baseOutput) == baseOutput = undefined

generateTargetOutput(target, baseOutput) ==
    "dirname(" \o baseOutput \o ")/basename(" \o baseOutput \o ")-" \o TripleOf(target)
        \o (IF target.platform = "win" THEN ".exe" ELSE "")

\* The seaOptions built by buildSingleTarget
seaOptionsOf(decision, opts) ==
    [ entrypoint |-> opts.entrypoint,
      output |-> generateTargetOutput(decision.target, opts.output),
      nodeVersion |-> decision.target.nodeRange,
      platform |-> decision.target.platform,
      arch |-> decision.target.arch,
      assets |-> opts.assets,
      useSnapshot |-> opts.useSnapshot,
      useCodeCache |-> opts.useCodeCache,
      signBinary |-> opts.signBinary ]

\* The else branch of buildSingleTarget: the placeholder of a traditional build
traditionalResult(decision, opts) ==
    LET targetOutput == generateTargetOutput(decision.target, opts.output)
    IN  [ target |-> decision.target,
          buildMode |-> "traditional",
          result |-> [ success |-> FALSE, outputPath |-> targetOutput, size |-> "0",
                       buildTime |-> "0", warnings |-> <<>>,
                       errors |-> <<Msg("Traditional PKG build not yet integrated in hybrid builder",
                                        <<>>)>> ],
          outputPath |-> targetOutput ]

\* The sea branch of buildSingleTarget, once seaBuilder.build has returned
seaResultEntry(decision, result) ==
    [ target |-> decision.target, buildMode |-> "sea", result |-> result,
      outputPath |-> result.outputPath ]

\* A loop body that only logs a failed result
errorsAfter_logOnly(errs, entry) == errs

\* errors after the loop body has looked at a result that was pushed
errorsAfter(errs, entry) ==
    IF entry.result.success THEN errs ELSE errs \o entry.result.errors

\* A loop that a failed target breaks out of
NextIndex_breakOnFailure(i, failed) == IF failed THEN Len(decisions) + 1 ELSE i + 1

\* The for-of loop over decisions: the next decision, whatever the last one did
NextIndex(i, failed) == i + 1

\* success: successCount === results.length
successOf(res) ==
    Cardinality({i \in 1..Len(res) : res[i].result.success}) = Len(res)

Dispatched(target, outcome) == [target |-> target, outcome |-> outcome]

\* Decisions listed from the last target to the first
analyzeBuildDecisions_reversed(opts, host) ==
    [i \in 1..Len(opts.targets) |->
        decideBuildStrategy(opts.targets[Len(opts.targets) + 1 - i], opts, host)]

\* analyzeBuildDecisions: one decision per target, pushed in the order of
\* options.targets
analyzeBuildDecisions(opts, host) ==
    [i \in 1..Len(opts.targets) |-> decideBuildStrategy(opts.targets[i], opts, host)]

\* const decisions = await this.analyzeBuildDecisions(options), and the summary.
\* Neither throws for targets whose fields are strings, so the catch block
\* around the whole of build is never entered.
HybridAnalyze ==
    /\ hpc = "start"
    /\ decisions' = analyzeBuildDecisions(options, env)
    /\ idx' = 1
    /\ hpc' = "loop"
    /\ UNCHANGED <<env, options, fvars, rival, dvars, results, errors, dispatched, hret, svars>>

\* One turn of the loop, up to the await of seaBuilder.build if there is one:
\* buildSingleTarget throws (the catch block of the loop body runs), or returns
\* the traditional placeholder (pushed and inspected), or calls seaBuilder.build
HybridDispatch ==
    /\ hpc = "loop"
    /\ idx <= Len(decisions)
    /\ LET decision == decisions[idx]
       IN  IF generateTargetOutputThrows(options.output)
           THEN /\ errors' = Append(errors,
                      Msg("Target ${nodeRange}-${platform}-${arch}: ${errorMessage}",
                          <<TripleOf(decision.target),
                            "The \"path\" argument must be of type string">>))
                /\ dispatched' = Append(dispatched, Dispatched(decision.target, "threw"))
                /\ idx' = NextIndex(idx, TRUE)
                /\ UNCHANGED <<results, hpc, svars>>
           ELSE IF decision.buildMode = "sea"
           THEN /\ spc \in {"idle", "returned"}
                /\ SeaEnter(seaOptionsOf(decision, options))
                /\ dispatched' = Append(dispatched, Dispatched(decision.target, "building"))
                /\ hpc' = "awaitSea"
                /\ UNCHANGED <<results, errors, idx>>
           ELSE LET entry == traditionalResult(decision, options)
                IN  /\ results' = Append(results, entry)
                    /\ errors' = errorsAfter(errors, entry)
                    /\ dispatched' = Append(dispatched,
                          Dispatched(decision.target,
                                     IF entry.result.success THEN "succeeded" ELSE "failed"))
                    /\ idx' = NextIndex(idx, ~entry.result.success)
                    /\ UNCHANGED <<hpc, svars>>
    /\ UNCHANGED <<env, options, fvars, rival, dvars, decisions, hret>>

\* seaBuilder.build has returned: the rest of buildSingleTarget and of the
\* loop body; the locals of the finished build call are gone
HybridCollect ==
    /\ hpc = "awaitSea"
    /\ spc = "returned"
    /\ LET entry == seaResultEntry(decisions[idx], seaRet)
       IN  /\ results' = Append(results, entry)
           /\ errors' = errorsAfter(errors, entry)
           /\ dispatched' = [dispatched EXCEPT ![Len(dispatched)].outcome =
                                IF entry.result.success THEN "succeeded" ELSE "failed"]
           /\ idx' = NextIndex(idx, ~entry.result.success)
    /\ hpc' = "loop"
    /\ spc' = "idle" /\ seaOptions' = None /\ seaConfig' = None /\ trace' = <<>>
    /\ seaErrors' = <<>> /\ seaWarnings' = <<>> /\ seaRet' = None
    /\ UNCHANGED <<env, options, fvars, rival, dvars, decisions, hret, fsys, calls>>

\* After the loop: return { success: successCount === results.length, ... }
HybridReturn ==
    /\ hpc = "loop"
    /\ idx > Len(decisions)
    /\ hret' = [ success |-> successOf(results), results |-> results,
                 totalTime |-> "totalTime", warnings |-> <<>>, errors |-> errors ]
    /\ hpc' = "done"
    /\ UNCHANGED <<env, options, fvars, rival, dvars, decisions, idx, results, errors, dispatched, svars>>

(***************************************************************************)
(* Spec: HybridBuilder.build over a list of targets                        *)
(***************************************************************************)
BoundedSeq(S, n) == UNION {[1..k -> S] : k \in 0..n}

HybridTargets ==
    { Node21LinuxX64,
      [nodeRange |-> NodeTag(21), platform |-> "macos", arch |-> "arm64"],
      [nodeRange |-> NodeTag(18), platform |-> "win", arch |-> "x64"],
      [nodeRange |-> NodeTag(7), platform |-> "linux", arch |-> "x64"] }

HybridBuildOptions ==
    [ entrypoint : {"index.js"}, output : {"dist/app", undefined},
      targets : BoundedSeq(HybridTargets, MaxTargets),
      assets : {NoArray}, useSnapshot : {undefined}, useCodeCache : {undefined},
      forceBuildMode : ForceModes, crossCompile : {undefined, "true"},
      hasComplexRequires : {undefined}, signBinary : {undefined, "true"} ]

Init ==
    /\ env \in {h \in Hosts : h.assetsOnDisk = {}}
    /\ options \in HybridBuildOptions
    /\ dTarget = NoTarget
    /\ dlog = <<>>
    /\ hpc = "start" /\ decisions = <<>> /\ idx = 0 /\ results = <<>>
    /\ errors = <<>> /\ dispatched = <<>> /\ hret = None
    /\ SeaIdle
    /\ rival = NoRival
    /\ FetchIdle

Next ==
    \/ HybridAnalyze
    \/ HybridDispatch
    \/ HybridCollect
    \/ HybridReturn
    \/ SeaStep

Spec == Init /\ [][Next]_vars

(***************************************************************************)
(* pkg-fetch-extended: the resolver of node binaries                       *)
(*                                                                         *)
(* enhancedFetch and ExtendedPkgFetch.fetch are async; each action below   *)
(* is the code between two awaits.  pkg-fetch's own `need` is an external  *)
(* collaborator: it resolves to a path or it rejects.                      *)
(***************************************************************************)
Entry(key, value) == [key |-> key, value |-> value]

\* Object.entries(EXTENDED_NODE_VERSIONS), in insertion order
EXTENDED_NODE_VERSIONS ==
    << Entry(NodeTag(20), "20.11.1"), Entry(NodeTag(21), "21.7.3"),
       Entry(NodeTag(22), "22.0.0") >>

SUPPORTED_PLATFORMS == <<"linux", "macos", "win", "alpine", "linuxstatic">>

SUPPORTED_ARCHITECTURES == <<"x64", "arm64">>

\* Object.keys(table)
Keys(table) == [i \in 1..Len(table) |-> table[i].key]

\* The entries of a table under a key; table[key] is undefined when there is none
EntriesOf(table, key) == {i \in 1..Len(table) : table[i].key = key}

\* table[key], for a key the table has
Lookup(table, key) == table[CHOOSE i \in EntriesOf(table, key) : TRUE].value

isExtendedVersion(nodeRange) == Includes(Keys(EXTENDED_NODE_VERSIONS), nodeRange)

requiresExtendedSupport(nodeRange) == Includes(Keys(EXTENDED_NODE_VERSIONS), nodeRange)

\* const originalVersions of getSupportedVersions: the legacy fetch table
originalVersions ==
    <<NodeTag(8), NodeTag(10), NodeTag(12), NodeTag(14), NodeTag(16), NodeTag(18)>>

getSupportedVersions == originalVersions \o Keys(EXTENDED_NODE_VERSIONS)

\* A fallback table that sends node22 to another extended version
fallbackMap_chained ==
    << Entry(NodeTag(20), NodeTag(18)), Entry(NodeTag(21), NodeTag(18)),
       Entry(NodeTag(22), NodeTag(21)) >>

\* const fallbackMap of fallbackToClosestVersion
fallbackMap ==
    << Entry(NodeTag(20), NodeTag(18)), Entry(NodeTag(21), NodeTag(18)),
       Entry(NodeTag(22), NodeTag(18)) >>

generateDownloadUrl(platform, arch, version) ==
    LET nodePlatform == CASE platform = "linux" -> "linux"
                          [] platform = "macos" -> "darwin"
                          [] platform = "win" -> "win32"
                          [] platform = "alpine" -> "linux"
                          [] platform = "linuxstatic" -> "linux"
                          [] OTHER -> undefined
        nodeArch == CASE arch = "x64" -> "x64"
                      [] arch = "arm64" -> "arm64"
                      [] OTHER -> undefined
        extension == IF platform = "win" THEN ".zip" ELSE ".tar.xz"
    IN  "https://nodejs.org/dist/v" \o version \o "/node-v" \o version \o "-"
            \o nodePlatform \o "-" \o nodeArch \o extension

\* path.join(this.cacheDir, 'v3.5', filename)
generateLocalPath(platform, arch, version) ==
    "cacheDir/v3.5/fetched-v" \o version \o "-" \o platform \o "-" \o arch
        \o (IF platform = "win" THEN ".exe" ELSE "")

\* getBinaryInfo: what it throws, or the ExtendedBinaryInfo it returns
getBinaryInfo(opts) ==
    IF ~isExtendedVersion(opts.nodeRange)
    THEN [ threw |-> TRUE,
           error |-> Msg("Node.js version ${nodeRange} is not supported by extended pkg-fetch",
                         opts.nodeRange) ]
    ELSE IF ~Includes(SUPPORTED_PLATFORMS, opts.platform)
    THEN [ threw |-> TRUE,
           error |-> Msg("Platform ${platform} is not supported", <<opts.platform>>) ]
    ELSE IF ~Includes(SUPPORTED_ARCHITECTURES, opts.arch)
    THEN [ threw |-> TRUE,
           error |-> Msg("Architecture ${arch} is not supported", <<opts.arch>>) ]
    ELSE LET version == Lookup(EXTENDED_NODE_VERSIONS, opts.nodeRange)
         IN  [ threw |-> FALSE,
               info |-> [ nodeRange |-> opts.nodeRange,
                          platform |-> opts.platform,
                          arch |-> opts.arch,
                          version |-> version,
                          url |-> generateDownloadUrl(opts.platform, opts.arch, version),
                          localPath |-> generateLocalPath(opts.platform, opts.arch, version),
                          isExtended |-> TRUE ] ]

\* A cache check that never finds the file
binaryExists_never(localPath, files) == FALSE

\* binaryExists: fs.access(localPath) succeeds
binaryExists(localPath, files) == localPath \in files

\* The call need({ nodeRange, platform, arch }), and the path it resolves to
needPath(nodeRange, platform, arch) ==
    "need(" \o Str(nodeRange) \o "-" \o platform \o "-" \o arch \o ")"

Returns(path) == [kind |-> "path", path |-> path, error |-> Msg("", <<>>)]

Throws(error) == [kind |-> "error", path |-> "", error |-> error]

\* enhancedFetch(nodeRange, platform, arch) or, for a client of the class,
\* new ExtendedPkgFetch().fetch(options), up to the first await
FetchCall ==
    /\ fpc = "idle"
    /\ flog' = <<fArgs.entry>>
    /\ fpc' = IF fArgs.entry = "enhancedFetch" /\ ~requiresExtendedSupport(fArgs.nodeRange)
              THEN "need" ELSE "getBinaryInfo"
    /\ UNCHANGED <<env, options, dvars, hvars, svars, rival, fArgs, cache,
                   binaryInfo, fret>>

\* const binaryInfo = await this.getBinaryInfo(options)
FetchGetBinaryInfo ==
    /\ fpc = "getBinaryInfo"
    /\ flog' = Append(flog, "getBinaryInfo")
    /\ LET result == getBinaryInfo(fArgs)
       IN  IF result.threw
           THEN /\ fret' = Throws(result.error)
                /\ fpc' = "thrown"
                /\ UNCHANGED binaryInfo
           ELSE /\ binaryInfo' = result.info
                /\ fpc' = "binaryExists"
                /\ UNCHANGED fret
    /\ UNCHANGED <<env, options, dvars, hvars, svars, rival, fArgs, cache>>

\* if (await this.binaryExists(binaryInfo.localPath)) return binaryInfo.localPath
FetchBinaryExists ==
    /\ fpc = "binaryExists"
    /\ flog' = Append(flog, "binaryExists")
    /\ IF binaryExists(binaryInfo.localPath, cache)
       THEN /\ fret' = Returns(binaryInfo.localPath)
            /\ fpc' = "returned"
       ELSE /\ fpc' = "downloadOfficialBinary"
            /\ UNCHANGED fret
    /\ UNCHANGED <<env, options, dvars, hvars, svars, rival, fArgs, cache, binaryInfo>>

\* try { await this.downloadOfficialBinary(binaryInfo) } catch: the download
\* is a placeholder that always throws, and the catch block goes to the fallback
FetchDownload ==
    /\ fpc = "downloadOfficialBinary"
    /\ flog' = Append(flog, "downloadOfficialBinary")
    /\ fpc' = "fallbackToClosestVersion"
    /\ UNCHANGED <<env, options, dvars, hvars, svars, rival, fArgs, cache,
                   binaryInfo, fret>>

\* log.warn(`Using ${fallbackVersion} binary for ${nodeRange} (compatibility mode)`)
CompatibilityWarning == "log.warn(compatibility mode)"

\* return this.fallbackToClosestVersion(options), up to the call of need: the
\* lookup in fallbackMap, the throw when there is no entry, the warning
FetchFallback ==
    /\ fpc = "fallbackToClosestVersion"
    /\ IF EntriesOf(fallbackMap, fArgs.nodeRange) = {}
       THEN /\ flog' = Append(flog, "fallbackToClosestVersion")
            /\ fret' = Throws(Msg("No fallback version available for ${nodeRange}",
                                  fArgs.nodeRange))
            /\ fpc' = "thrown"
       ELSE /\ flog' = flog \o <<"fallbackToClosestVersion", CompatibilityWarning>>
            /\ fpc' = "need"
            /\ UNCHANGED fret
    /\ UNCHANGED <<env, options, dvars, hvars, svars, rival, fArgs, cache, binaryInfo>>

\* A need that is handed the requested version after the fallback too
needRange_requested == fArgs.nodeRange

\* The nodeRange handed to pkg-fetch's need: the fallback version after a
\* failed download, the requested version from enhancedFetch
needRange ==
    IF Includes(flog, "fallbackToClosestVersion")
    THEN Lookup(fallbackMap, fArgs.nodeRange)
    ELSE fArgs.nodeRange

\* return need({ nodeRange, platform, arch }): pkg-fetch resolves or rejects
FetchNeed ==
    /\ fpc = "need"
    /\ flog' = Append(flog, needPath(needRange, fArgs.platform, fArgs.arch))
    /\ \E outcome \in {"resolved", "rejected"} :
        IF outcome = "resolved"
        THEN /\ fret' = Returns(needPath(needRange, fArgs.platform, fArgs.arch))
             /\ fpc' = "returned"
        ELSE /\ fret' = Throws(Msg("pkg-fetch need rejected", needRange))
             /\ fpc' = "thrown"
    /\ UNCHANGED <<env, options, dvars, hvars, svars, rival, fArgs, cache, binaryInfo>>

(***************************************************************************)
(* SpecFetch: one resolver call for every version, platform, arch and      *)
(* cache content                                                           *)
(***************************************************************************)
FetchEntries == {"enhancedFetch", "fetch"}

\* Files the cache directory may hold when the call starts
CachePaths ==
    { generateLocalPath(platform, "x64", version) :
        platform \in {"linux", "win"}, version \in {"20.11.1", "21.7.3"} }

InitFetch ==
    /\ env \in {h \in Hosts : h.assetsOnDisk = {} /\ h.helpListsSeaConfig}
    /\ options = NoOptions
    /\ dTarget = NoTarget
    /\ dlog = <<>>
    /\ HybridIdle
    /\ SeaIdle
    /\ rival = NoRival
    /\ fArgs \in [entry : FetchEntries, nodeRange : VersionTags,
                  platform : Platforms, arch : Archs]
    /\ cache \in SUBSET CachePaths
    /\ fpc = "idle"
    /\ binaryInfo = None
    /\ flog = <<>>
    /\ fret = NoReturn

NextFetch ==
    \/ FetchCall
    \/ FetchGetBinaryInfo
    \/ FetchBinaryExists
    \/ FetchDownload
    \/ FetchFallback
    \/ FetchNeed

SpecFetch == InitFetch /\ [][NextFetch]_vars

(***************************************************************************)
(* Claims about SEABuilder.build (SpecSEA) and HybridBuilder.build (Spec)  *)
(***************************************************************************)
Returned == spc = "returned"

LastRan == trace[Len(trace)]

RanWith(cmd, outcome) ==
    \E i \in 1..Len(trace) : trace[i].cmd = cmd /\ trace[i].outcome = outcome

\* C1: when build has returned, after a success or after a failure at any one
\* of the steps 1..8, cleanup was the last thing it did and the temporary
\* working directory does not exist (the removal itself not being one of the
\* failing steps).
C1_CleanupGuarantee ==
    Returned =>
        /\ Len(trace) > 0
        /\ LastRan.cmd = "fs.rm"
        /\ LastRan.outcome = "ok" => (~fsys.tempDir /\ fsys.tempFiles = {})

C1_Witness ==
    /\ Returned
    /\ ~seaRet.success
    /\ RanWith("fs.mkdir", "ok")
    /\ RanWith("npx", "exitN")
    /\ LastRan.outcome = "ok"
    /\ ~fsys.tempDir

\* The blob-generation tool (node --experimental-sea-config) or the injection
\* tool (npx postject) ran as the i-th call and exited with a nonzero code
ToolFailedAt(i) ==
    /\ trace[i].outcome = "exitN"
    /\ \/ trace[i].cmd = "npx"
       \/ trace[i].cmd = "node" /\ trace[i].args[1] = "--experimental-sea-config"

StderrMessageOf(entry) ==
    IF entry.cmd = "npx"
    THEN Msg("Failed to inject blob: ${result.stderr}", <<"stderr of npx postject">>)
    ELSE Msg("Failed to generate SEA blob: ${result.stderr}",
             <<"stderr of node --experimental-sea-config">>)

\* C16: once the blob-generation tool or the injection tool has exited with a
\* nonzero code, the build makes no further call but the removal of the temp
\* directory, its result has success = false and errors holding the message
\* with the tool's stderr, and when it has returned the removal was its last
\* call and, the removal having succeeded, the temp directory is absent.
C16_ToolFailure ==
    \A i \in 1..Len(trace) :
        ToolFailedAt(i) =>
            /\ spc \in {"finally", "returned"}
            /\ \A j \in (i + 1)..Len(trace) : trace[j].cmd = "fs.rm"
            /\ seaRet.success = FALSE
            /\ Includes(seaRet.errors, StderrMessageOf(trace[i]))
            /\ Returned =>
                  /\ LastRan.cmd = "fs.rm"
                  /\ LastRan.outcome = "ok" => (~fsys.tempDir /\ fsys.tempFiles = {})

C16_Witness ==
    /\ Returned
    /\ \E i \in 1..Len(trace) : ToolFailedAt(i) /\ trace[i].cmd = "node"
    /\ seaRet.success = FALSE
    /\ Len(seaRet.errors) = 1
    /\ LastRan.outcome = "ok"
    /\ ~fsys.tempDir

\* The i-th call is where one of the steps 1..8 failed: a file operation of
\* config emission, binary copy or relocation failed, the blob-generation or
\* injection tool exited nonzero, or a tool could not be started at all
StepFailedAt(i) ==
    \/ trace[i].cmd \in {"fs.writeFile", "fs.copyFile", "fs.rename"}
          /\ trace[i].outcome = "error"
    \/ ToolFailedAt(i)
    \/ trace[i].outcome = "absent"

CapabilityMessage ==
    "Node.js ${options.nodeVersion} does not support SEA or SEA is not available"

\* The build stopped at its capability check
AbortedAtCheck ==
    /\ spc \in {"finally", "returned"}
    /\ seaErrors # <<>>
    /\ seaErrors[1].text = CapabilityMessage

\* C17: once a step of 1..8 has failed the build is on its way to return, or
\* has returned, a result with success = false, outputPath = '' and the
\* message of the failure in errors; it never ends without a result, and when
\* it has returned the cleanup was the last thing it did.
C17_FailureReturned ==
    (AbortedAtCheck \/ \E i \in 1..Len(trace) : StepFailedAt(i)) =>
        /\ spc \in {"finally", "returned"}
        /\ seaRet.success = FALSE
        /\ seaRet.outputPath = ""
        /\ Len(seaRet.errors) > 0
        /\ seaRet.errors = seaErrors
        /\ Returned => LastRan.cmd = "fs.rm"

\* C19: past its capability check, the build has stopped at the check, with
\* no file written and no build tool run, when getSEACapabilities gives
\* hasNativeSEA = false for the version, and has not stopped at the check when
\* it gives hasNativeSEA = true (node19 and node20 as well as node21 and up).
C19_CapabilityCheck ==
    spc \notin {"idle", "canUseSEA"} =>
        IF getSEACapabilities(seaOptions.nodeVersion).hasNativeSEA
        THEN ~AbortedAtCheck
        ELSE /\ AbortedAtCheck
             /\ \A i \in 1..Len(trace) : trace[i].cmd = "fs.rm"

Done == hpc = "done"

FailedTargets ==
    {i \in 1..Len(dispatched) : dispatched[i].outcome \in {"failed", "threw"}}

\* C2: when HybridBuilder.build has returned, success is false whenever some
\* target failed (its result has success = false, or building it threw), and
\* success is true only if every requested target succeeded.
C2_AggregateSuccess ==
    Done =>
        /\ FailedTargets # {} => hret.success = FALSE
        /\ hret.success =>
              /\ Len(dispatched) = Len(options.targets)
              /\ \A i \in 1..Len(dispatched) : dispatched[i].outcome = "succeeded"

\* C3: when HybridBuilder.build has returned, results has exactly one entry
\* per requested target, in order, whichever targets failed or threw.
C3_ResultsComplete ==
    Done =>
        /\ Len(hret.results) = Len(options.targets)
        /\ \A i \in 1..Len(hret.results) : hret.results[i].target = options.targets[i]

\* C4: a failed or throwing target never stops the loop: the loop is always at
\* the target right after the ones handed to buildSingleTarget, and when build
\* has returned every requested target was handed to it, in order.
C4_FailureIsolation ==
    /\ hpc = "loop" => idx = Len(dispatched) + 1
    /\ Done =>
          /\ Len(dispatched) = Len(options.targets)
          /\ \A i \in 1..Len(dispatched) :
                /\ dispatched[i].target = options.targets[i]
                /\ dispatched[i].outcome # "building"

C4_Witness ==
    /\ Done
    /\ Len(options.targets) >= 2
    /\ dispatched[1].outcome = "failed"
    /\ dispatched[2].outcome = "succeeded"

(***************************************************************************)
(* Claims about the resolver (checked under SpecFetch)                     *)
(***************************************************************************)
FetchEnded == fpc \in {"returned", "thrown"}

\* C14: every version that getNodeVersionInfo flags isSupported and that is
\* outside the legacy fetch table has exactly one entry in the resolver's
\* fallback table, whose target version is isSupported too.
C14_FallbackComplete ==
    (fpc # "idle" /\ getNodeVersionInfo(fArgs.nodeRange).isSupported
       /\ ~Includes(originalVersions, fArgs.nodeRange)) =>
        /\ Cardinality(EntriesOf(fallbackMap, fArgs.nodeRange)) = 1
        /\ \A i \in EntriesOf(fallbackMap, fArgs.nodeRange) :
              getNodeVersionInfo(fallbackMap[i].value).isSupported

\* C15: every version the resolver treats as extended has exactly one entry
\* in the fallback table; its target is in the legacy table, is not extended
\* and has no fallback entry of its own, and a call that fell back made one
\* hop: a single need, for that target, right after the fallback.
C15_SingleHopFallback ==
    isExtendedVersion(fArgs.nodeRange) =>
        /\ Cardinality(EntriesOf(fallbackMap, fArgs.nodeRange)) = 1
        /\ LET fallbackVersion == Lookup(fallbackMap, fArgs.nodeRange)
           IN  /\ Includes(originalVersions, fallbackVersion)
               /\ ~isExtendedVersion(fallbackVersion)
               /\ EntriesOf(fallbackMap, fallbackVersion) = {}
               /\ (FetchEnded /\ Includes(flog, "fallbackToClosestVersion")) =>
                     flog = << fArgs.entry, "getBinaryInfo", "binaryExists",
                               "downloadOfficialBinary", "fallbackToClosestVersion",
                               CompatibilityWarning,
                               needPath(fallbackVersion, fArgs.platform, fArgs.arch) >>

C15_Witness ==
    /\ fpc = "returned"
    /\ fArgs.nodeRange = NodeTag(22)
    /\ Includes(flog, "fallbackToClosestVersion")
    /\ fret.path = needPath(NodeTag(18), fArgs.platform, fArgs.arch)

\* The cache files that hold the binary of the requested version, platform
\* and arch
CachedForRequest ==
    { generateLocalPath(fArgs.platform, fArgs.arch, EXTENDED_NODE_VERSIONS[i].value) :
        i \in EntriesOf(EXTENDED_NODE_VERSIONS, fArgs.nodeRange) } \cap cache

\* C20: when the cache holds the binary of the requested version, platform
\* and arch, the call never enters the download, the fallback or need, does
\* not throw, and returns the cached path right after the cache check.
C20_CacheHit ==
    CachedForRequest # {} =>
        /\ \A i \in 1..Len(flog) :
              flog[i] \in {fArgs.entry, "getBinaryInfo", "binaryExists"}
        /\ fpc # "thrown"
        /\ fpc = "returned" =>
              /\ fret.kind = "path"
              /\ fret.path \in CachedForRequest
              /\ flog = <<fArgs.entry, "getBinaryInfo", "binaryExists">>

C20_Witness ==
    /\ fpc = "returned"
    /\ CachedForRequest # {}
    /\ fret.path \in cache

(***************************************************************************)
(* Claims about overlapping builds (checked under SpecPair)                *)
(***************************************************************************)
\* A call is at work in its temp directory from ensureTempDir to its return
MainInTempDir ==
    spc \notin {"idle", "canUseSEA", "returned", "crashed"}

RivalInTempDir ==
    rival.pc \notin {"idle", "canUseSEA", "returned"}

\* C18: two build calls that overlap work in different temp directories, and
\* the files the first call has written into its temp directory and has yet
\* to read are there, as it wrote them, whatever the second call and its
\* cleanup do.
C18_TempDirPerBuild ==
    /\ (MainInTempDir /\ RivalInTempDir) => tempDir # rivalTempDir
    /\ MainNeeds \subseteq fsys.tempFiles
    /\ \A f \in MainNeeds : <<calls, f>> \notin rival.overwrote

\* The call got past getBinaryInfo and did not find the binary in the cache
CacheMiss ==
    /\ fpc \notin {"idle", "getBinaryInfo", "binaryExists"}
    /\ Includes(flog, "binaryExists")
    /\ binaryInfo.localPath \notin cache

\* C21: on a cache miss the download is attempted first; when it has failed
\* the requested version is looked up in the fallback table, the
\* compatibility-mode warning is emitted and then, last, the legacy need is
\* called for the mapped version with the platform and arch of the request.
C21_FallbackFlow ==
    CacheMiss =>
        /\ fpc = "downloadOfficialBinary" =>
              flog = <<fArgs.entry, "getBinaryInfo", "binaryExists">>
        /\ fpc # "downloadOfficialBinary" =>
              /\ Len(flog) >= 4
              /\ SubSeq(flog, 1, 4) = << fArgs.entry, "getBinaryInfo", "binaryExists",
                                         "downloadOfficialBinary" >>
        /\ fpc = "fallbackToClosestVersion" => Len(flog) = 4
        /\ fpc \in {"need", "returned", "thrown"} =>
              /\ Cardinality(EntriesOf(fallbackMap, fArgs.nodeRange)) = 1
              /\ Len(flog) >= 6
              /\ SubSeq(flog, 5, 6) = <<"fallbackToClosestVersion", CompatibilityWarning>>
        /\ fpc = "need" => Len(flog) = 6
        /\ FetchEnded =>
              /\ Len(flog) = 7
              /\ flog[7] = needPath(fallbackMap[CHOOSE i \in EntriesOf(fallbackMap, fArgs.nodeRange) : TRUE].value,
                                    fArgs.platform, fArgs.arch)

C21_Witness ==
    /\ fpc = "returned"
    /\ CacheMiss
    /\ fArgs.nodeRange = NodeTag(20)
    /\ fArgs.platform = "macos"
    /\ fArgs.arch = "arm64"
    /\ fret.path = needPath(NodeTag(18), "macos", "arm64")

\* The call failed because the legacy fetch mechanism itself rejected
NeedRejected ==
    /\ fpc = "thrown"
    /\ fret.error.text = "pkg-fetch need rejected"

\* C22: a resolver call that fails, the legacy mechanism's own rejection
\* aside, is one whose requested version has no fallback entry; and for a
\* version that is isSupported, with a platform and arch that validateTarget
\* accepts, the call does not fail by itself at all.
C22_FailsOnlyWithoutMapping ==
    (fpc = "thrown" /\ ~NeedRejected) =>
        /\ EntriesOf(fallbackMap, fArgs.nodeRange) = {}
        /\ ~validateTarget([ nodeRange |-> fArgs.nodeRange, platform |-> fArgs.platform,
                             arch |-> fArgs.arch ]).valid

\* What the legacy packager could report for a target handed to it
LegacyReports == [success : BOOLEAN]

\* C25: a target decided as sea gets the result of a pipeline run, and a target
\* decided as traditional gets the legacy packager's own result: whatever the
\* packager reports for it, the recorded success is the reported success.
C25_Dispatch ==
    \A i \in 1..Len(results) :
        /\ results[i].buildMode = "sea" => calls > 0
        /\ results[i].buildMode = "traditional" =>
              \A report \in LegacyReports :
                  results[i].result.success = report.success

\* The position of a trace entry's step in the order of build
StepRank(entry) ==
    CASE entry.cmd = "node" /\ entry.args[1] = "--help" -> 1
      [] entry.cmd = "fs.mkdir" -> 2
      [] entry.cmd = "fs.writeFile" -> 3
      [] entry.cmd = "node" /\ entry.args[1] = "--experimental-sea-config" -> 4
      [] entry.cmd = "fs.copyFile" -> 5
      [] entry.cmd \in {"codesign", "signtool"}
            /\ entry.args[1] \in {"--remove-signature", "remove"} -> 6
      [] entry.cmd = "npx" -> 7
      [] entry.cmd \in {"codesign", "signtool"} /\ entry.args[1] \in {"--sign", "sign"} -> 8
      [] entry.cmd = "fs.rename" -> 9
      [] entry.cmd = "fs.stat" -> 10
      [] entry.cmd = "fs.rm" -> 11

StartedAfterExit0(later, earlier) ==
    \A i \in 1..Len(trace) :
        StepRank(trace[i]) = later =>
            \E j \in 1..(i - 1) : StepRank(trace[j]) = earlier /\ trace[j].outcome = "exit0"

\* C26: within one call of build the steps start in the fixed order, injection
\* starts only after a blob generation that exited 0, relocation starts only
\* after an injection that exited 0, and nothing follows cleanup.
C26_PipelineOrdering ==
    /\ \A i \in 1..Len(trace) : \A j \in 1..Len(trace) :
          i < j => StepRank(trace[i]) < StepRank(trace[j])
    /\ StartedAfterExit0(7, 4)
    /\ StartedAfterExit0(9, 7)
    /\ \A i \in 1..Len(trace) : StepRank(trace[i]) = 11 => i = Len(trace)

PipelineRunning == spc \notin {"idle", "returned", "crashed"}

\* C27: targets are handed to buildSingleTarget one at a time in the order of
\* options.targets: the k-th target handed over is the k-th requested one, only
\* the last one handed over can still be building, a pipeline runs only while
\* build awaits it and it is the pipeline of that last target, no more
\* pipelines were started than targets handed over, and the k-th result
\* recorded belongs to the k-th requested target.
C27_SequentialOrder ==
    /\ Len(dispatched) <= Len(options.targets)
    /\ \A i \in 1..Len(dispatched) :
          /\ dispatched[i].target = options.targets[i]
          /\ dispatched[i].outcome = "building" =>
                (i = Len(dispatched) /\ hpc = "awaitSea")
    /\ PipelineRunning =>
          /\ hpc = "awaitSea"
          /\ dispatched[Len(dispatched)].outcome = "building"
          /\ seaOptions.nodeVersion = dispatched[Len(dispatched)].target.nodeRange
          /\ seaOptions.platform = dispatched[Len(dispatched)].target.platform
    /\ calls <= Len(dispatched)
    /\ Len(results) <= Len(dispatched)
    /\ \A i \in 1..Len(results) : results[i].target = options.targets[i]

C27_Witness ==
    /\ Done
    /\ Len(results) = 2
    /\ options.targets[1] # options.targets[2]
    /\ results[1].buildMode = "sea"
    /\ results[2].buildMode = "sea"
    /\ calls = 2

\* The step of the given rank ran in this call and its tool did not exit 0
ToolFailedInStep(rank) ==
    \E i \in 1..Len(trace) : StepRank(trace[i]) = rank /\ trace[i].outcome # "exit0"

StepOk(rank) ==
    \E i \in 1..Len(trace) : StepRank(trace[i]) = rank /\ trace[i].outcome = "ok"

\* C28: when the signing utility fails in the re-signing step, the call goes on
\* to relocation; if relocation and measurement then work, build returns
\* success = true with no errors, and the result returned carries a warning
\* about the signing failure.
C28_SigningBestEffort ==
    ToolFailedInStep(8) =>
        /\ spc # "crashed"
        /\ spc = "returned" =>
              /\ (StepOk(9) /\ StepOk(10)) =>
                    (seaRet.success /\ seaRet.errors = <<>>)
              /\ seaRet.warnings # <<>>

\* C29: on Windows, when signtool is absent or fails in the signature removal
\* step, the call is not ended by it: blob injection is the next step and is
\* started.
C29_RemovalBestEffort ==
    (seaOptions.platform = "win" /\ ToolFailedInStep(6)) =>
        /\ spc # "crashed"
        /\ spc = "injectBlob" \/ \E i \in 1..Len(trace) : StepRank(trace[i]) = 7

SigningTools == {"codesign", "signtool"}

\* C30: codesign or signtool is run only in a call whose platform is macos or
\* win (codesign for macos, signtool for win), and the re-signing run only when
\* signBinary is true; a call for linux, alpine or linuxstatic runs neither.
C30_PlatformGating ==
    \A i \in 1..Len(trace) :
        trace[i].cmd \in SigningTools =>
            /\ seaOptions.platform \in {"macos", "win"}
            /\ trace[i].cmd = (IF seaOptions.platform = "macos" THEN "codesign" ELSE "signtool")
            /\ StepRank(trace[i]) = 8 => Truthy(seaOptions.signBinary)

\* A call for alpine that got as far as relocation, and ran no signing tool
C30_Witness ==
    /\ seaOptions.platform = "alpine"
    /\ Truthy(seaOptions.signBinary)
    /\ spc = "returned"
    /\ seaRet.success
    /\ \A i \in 1..Len(trace) : trace[i].cmd \notin SigningTools

ConfigEmitted == seaConfig # None

\* C31: the configuration emitted by createSEAConfig has main = the entrypoint
\* and output = the blob path in the temp directory; useSnapshot is set exactly
\* when options.useSnapshot is true and the version supports snapshots;
\* useCodeCache is set exactly when options.useCodeCache is not false and the
\* version supports the code cache; and an assets mapping is present only when
\* the version supports assets (and then exactly when options.assets is given).
C31_ConfigEmission ==
    ConfigEmitted =>
        LET capabilities == getSEACapabilities(seaOptions.nodeVersion)
        IN  /\ seaConfig.main = seaOptions.entrypoint
            /\ seaConfig.output = tempDir \o "/" \o BlobFile
            /\ (seaConfig.useSnapshot = "true") <=>
                  (seaOptions.useSnapshot = "true" /\ capabilities.supportsSnapshot)
            /\ (seaConfig.useCodeCache = "true") <=>
                  (seaOptions.useCodeCache # "false" /\ capabilities.supportsCodeCache)
            /\ seaConfig.assets.defined => capabilities.supportsAssets
            /\ seaConfig.assets.defined <=>
                  (seaOptions.assets.defined /\ capabilities.supportsAssets)
            /\ \E i \in 1..Len(trace) :
                  StepRank(trace[i]) = 3 /\ trace[i].outcome = "ok"

C31_Witness ==
    /\ ConfigEmitted
    /\ seaOptions.useSnapshot = "false"
    /\ seaOptions.useCodeCache = undefined
    /\ seaConfig.useSnapshot = undefined
    /\ seaConfig.useCodeCache = "true"
    /\ seaConfig.assets.defined

AllTargetsSucceeded ==
    /\ Len(dispatched) = Len(options.targets)
    /\ \A i \in 1..Len(dispatched) : dispatched[i].outcome = "succeeded"

\* C32: when HybridBuilder.build has returned, every error of every result
\* with success = false is in the errors list returned, and that list is
\* empty when every requested target succeeded.
C32_ErrorAggregation ==
    Done =>
        /\ \A i \in 1..Len(hret.results) :
              ~hret.results[i].result.success =>
                  \A k \in 1..Len(hret.results[i].result.errors) :
                      Includes(hret.errors, hret.results[i].result.errors[k])
        /\ AllTargetsSucceeded => hret.errors = <<>>

C32_Witness ==
    /\ Done
    /\ Len(hret.results) = 2
    /\ ~hret.results[1].result.success
    /\ hret.results[1].buildMode = "sea"
    /\ hret.results[1].result.errors # <<>>
    /\ hret.results[2].result.success
    /\ hret.errors = hret.results[1].result.errors

\* The major number of a version string as getSEACapabilities reads it
MajorOf(nodeRange) == ParseInt(ReplaceNode(getNodeVersionInfo(nodeRange).version))

\* node19 has native SEA and none of the three features; node20 has the three
\* features and is not stable
ThresholdsDistinct ==
    /\ getSEACapabilities(NodeTag(19)) =
          [ hasNativeSEA |-> TRUE, supportsAssets |-> FALSE, supportsSnapshot |-> FALSE,
            supportsCodeCache |-> FALSE, requiresPostject |-> TRUE ]
    /\ getSEACapabilities(NodeTag(20)).supportsAssets
    /\ ~hasStableSEA(NodeTag(20))

\* C33: for every version string the three feature flags of getSEACapabilities
\* are equal, and are true exactly when hasNativeSEA is true and the major
\* number is at least 20; node19 has hasNativeSEA with the three flags false,
\* and node20 has the three flags without being stable.
C33_FeatureThresholds ==
    LET capabilities == getSEACapabilities(dTarget.nodeRange)
        expected == capabilities.hasNativeSEA
                        /\ \E n \in MajorOf(dTarget.nodeRange) : n >= 20
    IN  /\ capabilities.supportsAssets = expected
        /\ capabilities.supportsSnapshot = expected
        /\ capabilities.supportsCodeCache = expected
        /\ capabilities.hasNativeSEA = supportsSEA(dTarget.nodeRange)
        /\ ThresholdsDistinct

C33_Witness ==
    /\ Decided
    /\ dTarget.nodeRange = NodeTag(19)
    /\ getSEACapabilities(dTarget.nodeRange).hasNativeSEA
    /\ ~getSEACapabilities(dTarget.nodeRange).supportsAssets
    /\ ~getSEACapabilities(dTarget.nodeRange).supportsSnapshot
    /\ ~getSEACapabilities(dTarget.nodeRange).supportsCodeCache

\* C34: when `node --experimental-sea-config` or `npx postject` ran and ended
\* with a nonzero exit code or without one (killed by a signal), no later step
\* of the pipeline is started, only cleanup, and the call fails.
C34_ExitStatus ==
    \A i \in 1..Len(trace) :
        (StepRank(trace[i]) \in {4, 7} /\ trace[i].outcome \in {"exitN", "signal"}) =>
            /\ \A j \in (i + 1)..Len(trace) : StepRank(trace[j]) = 11
            /\ spc \in {"finally", "returned"}
            /\ ~seaRet.success

\* Versions the running node can have on a host whose `node --help` lists
\* --experimental-sea-config
HostRuntimeVersions == {NodeTag(20), NodeTag(21), NodeTag(22)}

\* The version of the runtime a copy step took: process.execPath is the
\* running node, whatever version that is
CopiedRuntimeVersion(entry, hostVersion) ==
    IF entry.args[1] = "process.execPath" THEN hostVersion ELSE <<>>

\* C35: when build has returned success for a target of version v, the binary
\* that the copy step took (and that was injected and moved to the output
\* path) is a runtime of version v, whichever version the host runs.
C35_RuntimeVersionFidelity ==
    (spc = "returned" /\ seaRet.success) =>
        \A i \in 1..Len(trace) :
            StepRank(trace[i]) = 5 =>
                \A hostVersion \in HostRuntimeVersions :
                    CopiedRuntimeVersion(trace[i], hostVersion) =
                        getNodeVersionInfo(seaOptions.nodeVersion).version

FetchTarget ==
    [nodeRange |-> fArgs.nodeRange, platform |-> fArgs.platform, arch |-> fArgs.arch]

GetBinaryInfoEntered == Includes(flog, "getBinaryInfo")

\* C36: when getBinaryInfo has been called for a target that validateTarget
\* accepts and whose version is an extended version, it did not throw: the
\* call went on with the binaryInfo of that target.
C36_ValidatorResolverAgree ==
    (GetBinaryInfoEntered /\ validateTarget(FetchTarget).valid
        /\ isExtendedVersion(fArgs.nodeRange)) =>
            /\ ~getBinaryInfo(fArgs).threw
            /\ binaryInfo # None
            /\ binaryInfo.platform = fArgs.platform
            /\ binaryInfo.arch = fArgs.arch

\* node<N> for N in 8..24, or latest
WellFormedSupportedTag(tag) ==
    \/ tag = LatestTag
    \/ \E n \in 8..24 : tag = NodeTag(n)

\* C37: for every version tag, enhancedIsValidNodeRange and the version check
\* of validateTarget (isSupported of getNodeVersionInfo) give the same answer,
\* and that answer is yes exactly for node8..node24 and latest.
C37_VersionTagAgreement ==
    LET tag == dTarget.nodeRange
    IN  /\ enhancedIsValidNodeRange(tag) = getNodeVersionInfo(tag).isSupported
        /\ enhancedIsValidNodeRange(tag) = WellFormedSupportedTag(tag)

ExitedZero(rank) ==
    \E i \in 1..Len(trace) : StepRank(trace[i]) = rank /\ trace[i].outcome = "exit0"

\* A step that changes what is at the output path is the relocation step of a
\* call whose blob generation and whose injection both exited 0
OutputWrittenByRelocationOnly ==
    fsys'.output # fsys.output =>
        /\ spc = "moveToFinalLocation"
        /\ ExitedZero(4)
        /\ ExitedZero(7)

\* C38: nothing is created, replaced or removed at the output path by any step
\* but relocation, so a call that fails before relocation leaves it as it was;
\* and relocation writes it only in a call whose blob generation and injection
\* both succeeded.
C38_OutputUntouched == [][OutputWrittenByRelocationOnly]_vars

(***************************************************************************)
(* SpecLive: Spec with progress.  Every step of build or of the pipeline    *)
(* waits for a process to exit or for a filesystem call to return; when     *)
(* these always happen, a step that can be taken is taken.                  *)
(***************************************************************************)
\* Calls of build that name an output path and leave crossCompile unset
InitLive ==
    /\ Init
    /\ options.output = "dist/app"
    /\ options.crossCompile = undefined

SpecLive == InitLive /\ [][Next]_vars /\ WF_vars(Next)

PipelineReturns == (spc = "canUseSEA") ~> (spc = "returned")

HybridReturns == (hpc = "start") ~> (Done /\ Len(dispatched) = Len(options.targets))

\* C39: every call of SEABuilder.build that was entered eventually returns,
\* and every call of HybridBuilder.build eventually returns with every
\* requested target handed to buildSingleTarget.
C39_Termination == PipelineReturns /\ HybridReturns

====
